---- MODULE Spec2Model ----
(***************************************************************************)
(* Model of graphic-stories: the force layout engine, the interaction      *)
(* controller, the hover handlers and the edge renderer of                 *)
(* src/src/components/InteractiveGraph.tsx (the component at lines 1-519), *)
(* the graph builder of src/src/App.tsx and the link construction of the   *)
(* SceneGraph variant of src/unnamed/part_001.                             *)
(*                                                                         *)
(* Numbers.  The code computes in IEEE doubles.  Here every coordinate and *)
(* velocity is a fixed-point integer counted in thousandths of a           *)
(* simulation unit (MILLI per unit).  Squared distances are taken on       *)
(* tenths of a unit (DECI milli-units) so that they stay inside 32 bits.   *)
(* Divisions truncate toward zero.                                         *)
(***************************************************************************)
EXTENDS Integers, Sequences, FiniteSets, TLC

VARIABLES
    mounted,      \* the component is mounted
    graph,        \* the graph prop (StoryGraph)
    nodesRef,     \* nodesRef.current: the authoritative PositionedNode array
    positions,    \* the published snapshot (React state `positions`)
    dragState,    \* dragState.current: NoDrag or [nodeId, pointerId]
    capture,      \* pointer capture: pointer id -> id of the capturing node element
    effect,       \* the live effect closure: NoEffect or [loop, frameId]
    rafQueue,     \* pending requestAnimationFrame callbacks
    nextFrameId,  \* the id the next requestAnimationFrame call returns
    nextLoop,     \* number of the next effect run that starts a loop
    now,          \* the frame clock (timestamp handed to tick)
    steps,        \* handlers run so far (bounds the exploration)
    lastEvent,    \* history: the handler that ran last, with its inputs
    prevEvent,    \* history: the handler that ran before it
    before,       \* history: nodes, snapshot, drag record, capture before it
    lastTick,     \* history: the phases of the tick that ran last
    tickPublish,  \* history: loop and timestamp of the last tick-driven publish
    scene,        \* the scene handed to buildGraphFromScene
    built,        \* what buildGraphFromScene(scene) produced
    view,         \* what the component rendered: the edge paths of the svg
    text,         \* the identifier handed to normalizeName
    normal,       \* the successive results of normalizeName on text
    hoveredNodeId,   \* React state: id of the hovered node, NoNode for null
    hoveredEdgeKey,  \* React state: renderKey of the hovered edge
    hoveredEdge,     \* React state: the edge tooltip {x, y, label}
    sceneData,       \* the sceneData prop of the SceneGraph variant
    sceneGraph       \* the nodes and links its effect built from sceneData

vars == << mounted, graph, nodesRef, positions, dragState, capture, effect,
           rafQueue, nextFrameId, nextLoop, now, steps, lastEvent, prevEvent,
           before, lastTick, tickPublish, scene, built, view, text, normal,
           hoveredNodeId, hoveredEdgeKey, hoveredEdge, sceneData, sceneGraph >>

----------------------------------------------------------------------------
(* Bounds of the exploration *)

MaxSteps == 3

\* events of a scene
MaxEvents == 2

\* edges of a rendered graph
MaxEdges == 3

\* characters of an identifier handed to normalizeName
MaxLen == 4

\* ticks of a simulation left to itself
MaxTicks == 200

----------------------------------------------------------------------------
(* Program constants, InteractiveGraph.tsx lines 48-57 *)

MILLI == 1000
DECI == 100

GRAPH_WIDTH == 760
GRAPH_HEIGHT == 480
NODE_RADIUS == 18
REPULSION_STRENGTH == 1800
\* SPRING_STRENGTH = 0.02, in thousandths
SPRING_STRENGTH == 20
SPRING_DISTANCE == 140
\* CENTERING_STRENGTH = 0.0025: a force of 1/400 of the displacement
CENTERING_STRENGTH == 400
\* VELOCITY_DECAY = 0.92, in hundredths
VELOCITY_DECAY == 92
UPDATE_INTERVAL == 40
CURVE_SPACING == 22

----------------------------------------------------------------------------
(* Arithmetic helpers *)

Abs(a) == IF a >= 0 THEN a ELSE -a

Max(a, b) == IF a >= b THEN a ELSE b

Min(a, b) == IF a <= b THEN a ELSE b

\* a / b for b > 0, truncated toward zero
TruncDiv(a, b) == IF a >= 0 THEN a \div b ELSE -((-a) \div b)

RECURSIVE SqrtIter(_, _, _)
SqrtIter(n, lo, hi) ==
    IF lo >= hi THEN lo
    ELSE LET mid == (lo + hi + 1) \div 2
         IN  IF mid * mid <= n THEN SqrtIter(n, mid, hi)
                               ELSE SqrtIter(n, lo, mid - 1)

\* Math.sqrt on a non-negative integer, rounded down
Sqrt(n) == SqrtIter(n, 0, Min(n, 46340))

----------------------------------------------------------------------------
(* Inputs: the graphs handed to the component *)

NodeIds == {"A", "B", "C"}

NoNode == "none"

GraphAB ==
    [nodes |-> << [id |-> "A"], [id |-> "B"] >>,
     edges |-> << [source |-> "A", target |-> "B", relationship |-> "greets"] >>]

\* two parallel edges A-B in both directions, the second without a
\* relationship, and an edge to an unknown id
GraphABC ==
    [nodes |-> << [id |-> "A"], [id |-> "B"], [id |-> "C"] >>,
     edges |-> << [source |-> "A", target |-> "B", relationship |-> "meets"],
                  [source |-> "B", target |-> "A", relationship |-> ""],
                  [source |-> "C", target |-> "X", relationship |-> "calls"] >>]

GraphEmpty == [nodes |-> << >>, edges |-> << >>]

\* the two nodes joined the other way round
GraphBA ==
    [nodes |-> << [id |-> "A"], [id |-> "B"] >>,
     edges |-> << [source |-> "B", target |-> "A", relationship |-> "greets"] >>]

\* the graphs of 2 nodes joined by 1 edge
PairGraphs == {GraphAB, GraphBA}

Graphs == {GraphAB, GraphABC, GraphEmpty}

----------------------------------------------------------------------------
(* createInitialNodes, lines 78-93 *)

\* Math.cos and Math.sin in thousandths, at the multiples of 30 degrees
CosTable == << 1000, 866, 500, 0, -500, -866, -1000, -866, -500, 0, 500, 866 >>

SinTable == << 0, 500, 866, 1000, 866, 500, 0, -500, -866, -1000, -866, -500 >>

\* (index / total) * Math.PI * 2, in degrees
SeedAngle(index, total) == (index * 360) \div total

Cos(deg) == CosTable[((deg % 360) \div 30) + 1]

Sin(deg) == SinTable[((deg % 360) \div 30) + 1]

centerX == (GRAPH_WIDTH * MILLI) \div 2

centerY == (GRAPH_HEIGHT * MILLI) \div 2

\* Math.min(centerX, centerY) * 0.6
SeedRadius == (Min(centerX, centerY) * 6) \div 10

\* index is 0-based as in Array.map; the spread ...node keeps the id
SeedNode(node, index, total) ==
    [id |-> node.id,
     x |-> centerX + (Cos(SeedAngle(index, total)) * SeedRadius) \div MILLI,
     y |-> centerY + (Sin(SeedAngle(index, total)) * SeedRadius) \div MILLI,
     vx |-> 0,
     vy |-> 0,
     isFixed |-> FALSE]

createInitialNodes(g) ==
    LET total == Max(1, Len(g.nodes))
    IN  [i \in 1..Len(g.nodes) |-> SeedNode(g.nodes[i], i - 1, total)]

----------------------------------------------------------------------------
(* links, lines 118-128 *)

\* nodeIndex.get(id): the LAST index holding id (Map construction keeps the
\* last entry of a repeated key), 0 for undefined
NodeIndexOf(nodes, id) ==
    LET hits == {i \in 1..Len(nodes) : nodes[i].id = id}
    IN  IF hits = {} THEN 0 ELSE CHOOSE i \in hits : \A j \in hits : j <= i

RECURSIVE LinksFrom(_, _, _)
LinksFrom(edges, nodes, k) ==
    IF k > Len(edges) THEN << >>
    ELSE LET sourceIndex == NodeIndexOf(nodes, edges[k].source)
             targetIndex == NodeIndexOf(nodes, edges[k].target)
             rest == LinksFrom(edges, nodes, k + 1)
         IN  IF sourceIndex = 0 \/ targetIndex = 0
             THEN rest
             ELSE << [sourceIndex |-> sourceIndex, targetIndex |-> targetIndex] >> \o rest

BuildLinks(g, seeded) == LinksFrom(g.edges, seeded, 1)

----------------------------------------------------------------------------
(* tick, lines 133-196 *)

\* applyForce without the isFixed guard of lines 134-136
applyForceUnguarded(node, fx, fy) ==
    [node EXCEPT !.vx = @ + fx, !.vy = @ + fy]

\* applyForce, lines 133-139
applyForce(node, fx, fy) ==
    IF node.isFixed THEN node
    ELSE [node EXCEPT !.vx = @ + fx, !.vy = @ + fy]

\* a coordinate difference in tenths of a unit
Tenths(d) == TruncDiv(d, DECI)

\* the 0.01 added to distSq (line 150), in squared tenths
DIST_EPS == 1

\* the floor Math.max(..., 0.01) of line 165: the smallest positive distance
MIN_DISTANCE == 1

\* body of the inner repulsion loop for the pair (i, j), lines 146-156
RepelPair(nodes, i, j) ==
    LET a == nodes[i]
        b == nodes[j]
        dx == Tenths(b.x - a.x)
        dy == Tenths(b.y - a.y)
        distSq == dx * dx + dy * dy + DIST_EPS
        distance == Sqrt(distSq)
        force == (REPULSION_STRENGTH * DECI * MILLI) \div distSq
        fx == TruncDiv(dx * force, distance)
        fy == TruncDiv(dy * force, distance)
    IN  [nodes EXCEPT ![i] = applyForce(a, -fx, -fy),
                      ![j] = applyForce(b, fx, fy)]

RECURSIVE RepulsionLoop(_, _, _)
RepulsionLoop(nodes, i, j) ==
    IF i > Len(nodes) THEN nodes
    ELSE IF j > Len(nodes) THEN RepulsionLoop(nodes, i + 1, i + 2)
    ELSE RepulsionLoop(RepelPair(nodes, i, j), i, j + 1)

\* phase 1, lines 144-158
Repulsion(nodes) == RepulsionLoop(nodes, 1, 2)

\* body of links.forEach, lines 161-171
SpringLink(nodes, link) ==
    LET source == nodes[link.sourceIndex]
        target == nodes[link.targetIndex]
        dx == Tenths(target.x - source.x)
        dy == Tenths(target.y - source.y)
        distance == Max(Sqrt(dx * dx + dy * dy), MIN_DISTANCE)
        delta == distance - SPRING_DISTANCE * (MILLI \div DECI)
        force == TruncDiv(SPRING_STRENGTH * delta * DECI, MILLI)
        fx == TruncDiv(dx * force, distance)
        fy == TruncDiv(dy * force, distance)
        pulled == [nodes EXCEPT ![link.sourceIndex] = applyForce(source, fx, fy)]
    IN  [pulled EXCEPT ![link.targetIndex] =
                           applyForce(pulled[link.targetIndex], -fx, -fy)]

RECURSIVE SpringLoop(_, _, _)
SpringLoop(nodes, links, k) ==
    IF k > Len(links) THEN nodes
    ELSE IF links[k].sourceIndex > Len(nodes) \/ links[k].targetIndex > Len(nodes)
    \* never taken: a loop's links index the array seeded with it
    THEN SpringLoop(nodes, links, k + 1)
    ELSE SpringLoop(SpringLink(nodes, links[k]), links, k + 1)

\* phase 2, lines 160-172
Springs(nodes, links) == SpringLoop(nodes, links, 1)

\* centering that pulls the position itself instead of the velocity
CenteringMoving(nodes) ==
    [i \in 1..Len(nodes) |->
        IF nodes[i].isFixed THEN nodes[i]
        ELSE [nodes[i] EXCEPT
                 !.x = @ + TruncDiv(centerX - nodes[i].x, CENTERING_STRENGTH),
                 !.y = @ + TruncDiv(centerY - nodes[i].y, CENTERING_STRENGTH)]]

\* phase 3, lines 174-176
Centering(nodes) ==
    [i \in 1..Len(nodes) |->
        applyForce(nodes[i],
                   TruncDiv(centerX - nodes[i].x, CENTERING_STRENGTH),
                   TruncDiv(centerY - nodes[i].y, CENTERING_STRENGTH))]

\* integration without damping
DecayNone(v) == v

\* node.vx *= VELOCITY_DECAY, lines 182-183
Decay(v) == v - TruncDiv(v * (100 - VELOCITY_DECAY), 100)

\* integration without the clamp of lines 186-187
ClampNone(lo, hi, v) == v

Clamp(lo, hi, v) == Max(lo, Min(hi, v))

\* body of the integration forEach, lines 178-188
IntegrateNode(node) ==
    IF node.isFixed THEN node
    ELSE LET vx == Decay(node.vx)
             vy == Decay(node.vy)
         IN  [node EXCEPT
                 !.vx = vx,
                 !.vy = vy,
                 !.x = Clamp(NODE_RADIUS * MILLI,
                             (GRAPH_WIDTH - NODE_RADIUS) * MILLI, node.x + vx),
                 !.y = Clamp(NODE_RADIUS * MILLI,
                             (GRAPH_HEIGHT - NODE_RADIUS) * MILLI, node.y + vy)]

\* phase 4, lines 178-188
Integration(nodes) == [i \in 1..Len(nodes) |-> IntegrateNode(nodes[i])]

\* the four phases of one tick in program order, each with the array it
\* leaves behind
TickPhases(nodes, links) ==
    LET n1 == Repulsion(nodes)
        n2 == Springs(n1, links)
        n3 == Centering(n2)
        n4 == Integration(n3)
    IN  << [phase |-> "repulsion", nodes |-> n1],
           [phase |-> "springs", nodes |-> n2],
           [phase |-> "centering", nodes |-> n3],
           [phase |-> "integration", nodes |-> n4] >>

\* a tick that publishes on every frame
ShouldPublishAlways(timestamp, lastUpdate) == TRUE

\* timestamp - lastUpdate > UPDATE_INTERVAL, line 190
ShouldPublish(timestamp, lastUpdate) == timestamp - lastUpdate > UPDATE_INTERVAL

----------------------------------------------------------------------------
(* Pointer input, lines 227-281 *)

PointerIds == {1, 2}

NoDrag == [nodeId |-> NoNode, pointerId |-> 0]

\* getBoundingClientRect of the svg: drawn at half size, offset in the page
HalfSizeRect == [left |-> 10, top |-> 20, width |-> 380, height |-> 240]

\* pointer events: client coordinates with the on-screen bounds of the svg;
\* the first lands inside the viewport, the second outside it (a captured
\* pointer keeps reporting after it has left the svg)
PointerSamples ==
    { [clientX |-> 110, clientY |-> 70, bounds |-> HalfSizeRect],
      [clientX |-> 5, clientY |-> 300, bounds |-> HalfSizeRect] }

\* toGraphCoordinates, lines 227-238 (svgRef.current is set while node
\* elements exist to receive events)
toGraphCoordinates(event) ==
    [x |-> TruncDiv((event.clientX - event.bounds.left) * GRAPH_WIDTH * MILLI,
                    event.bounds.width),
     y |-> TruncDiv((event.clientY - event.bounds.top) * GRAPH_HEIGHT * MILLI,
                    event.bounds.height)]

\* Array.find: the first index whose id matches, 0 for undefined
FindIndex(nodes, id) ==
    LET hits == {i \in 1..Len(nodes) : nodes[i].id = id}
    IN  IF hits = {} THEN 0 ELSE CHOOSE i \in hits : \A j \in hits : i <= j

\* the guards of updateDraggedNode and handlePointerUp (lines 241-248,
\* 269-273): the index of the node the event acts on, 0 when it returns early
\* or finds no node
DragTarget(state, nodes, pointerId) ==
    IF state = NoDrag \/ state.pointerId # pointerId THEN 0
    ELSE FindIndex(nodes, state.nodeId)

\* the writes of updateDraggedNode, lines 249-254
DragNode(node, pt) ==
    [node EXCEPT !.x = pt.x, !.y = pt.y, !.vx = 0, !.vy = 0, !.isFixed = TRUE]

\* updateDraggedNode, lines 240-256: the node array it leaves
updateDraggedNode(state, nodes, event) ==
    LET k == DragTarget(state, nodes, event.pointerId)
    IN  IF k = 0 THEN nodes
        ELSE [nodes EXCEPT ![k] = DragNode(@, toGraphCoordinates(event))]

\* a drag that leaves the publish to the next tick
DragPublishNone(state, nodes, event, shown) == shown

\* setPositions of line 255: the snapshot after updateDraggedNode
DragPublish(state, nodes, event, shown) ==
    IF DragTarget(state, nodes, event.pointerId) = 0 THEN shown
    ELSE updateDraggedNode(state, nodes, event)

\* dragState.current after handlePointerDown, line 259
DownState(nodeId, pointerId) == [nodeId |-> nodeId, pointerId |-> pointerId]

\* whether handlePointerUp gets past its guard, lines 269-272
UpMatches(state, pointerId) == state # NoDrag /\ state.pointerId = pointerId

\* a pointer-up that clears the record and forgets the flag
ReleaseNodeKeepPin(state, nodes, pointerId) == nodes

\* handlePointerUp, lines 273-276: the node array it leaves
ReleaseNode(state, nodes, pointerId) ==
    LET k == DragTarget(state, nodes, pointerId)
    IN  IF k = 0 THEN nodes ELSE [nodes EXCEPT ![k].isFixed = FALSE]

----------------------------------------------------------------------------
(* Strings of src/src/App.tsx.  A string is a sequence of characters; "LF"  *)
(* stands for the line feed, the one whitespace character `.` does not     *)
(* match.                                                                  *)

IsSpace(c) == c \in {" ", "LF"}

LowerOf(c) ==
    CASE c = "A" -> "a" [] c = "B" -> "b" [] c = "G" -> "g" [] c = "L" -> "l"
      [] OTHER -> c

UpperOf(c) ==
    CASE c = "a" -> "A" [] c = "b" -> "B" [] c = "g" -> "G" [] c = "l" -> "L"
      [] OTHER -> c

toLowerCase(str) == [i \in 1..Len(str) |-> LowerOf(str[i])]

toUpperCase(str) == [i \in 1..Len(str) |-> UpperOf(str[i])]

\* the first index >= i of str that holds no whitespace (Len(str) + 1 if none)
RECURSIVE SkipSpace(_, _)
SkipSpace(str, i) ==
    IF i > Len(str) \/ ~IsSpace(str[i]) THEN i ELSE SkipSpace(str, i + 1)

\* `.*?\)` from index k: the index of the first ")" reached over characters
\* other than the line feed, 0 when there is none
RECURSIVE CloseOf(_, _)
CloseOf(str, k) ==
    IF k > Len(str) \/ str[k] = "LF" THEN 0
    ELSE IF str[k] = ")" THEN k
    ELSE CloseOf(str, k + 1)

\* name.replace(/\s*\(.*?\)\s*/g, ''): at index i the pattern matches a run
\* of whitespace, a "(", the shortest text up to a ")" and the whitespace
\* after it; where it does not match the character is kept
RECURSIVE StripFrom(_, _)
StripFrom(str, i) ==
    IF i > Len(str) THEN << >>
    ELSE LET open == SkipSpace(str, i)
             close == IF open <= Len(str) /\ str[open] = "("
                      THEN CloseOf(str, open + 1) ELSE 0
         IN  IF close # 0
             THEN StripFrom(str, SkipSpace(str, close + 1))
             ELSE << str[i] >> \o StripFrom(str, i + 1)

StripParentheticals(str) == StripFrom(str, 1)

RECURSIVE TrimEnd(_)
TrimEnd(str) ==
    IF Len(str) > 0 /\ IsSpace(str[Len(str)])
    THEN TrimEnd(SubSeq(str, 1, Len(str) - 1)) ELSE str

\* String.prototype.trim
trim(str) == TrimEnd(SubSeq(str, SkipSpace(str, 1), Len(str)))

\* str.replace(/\s+/g, ' ')
RECURSIVE CollapseFrom(_, _)
CollapseFrom(str, i) ==
    IF i > Len(str) THEN << >>
    ELSE IF IsSpace(str[i])
    THEN << " " >> \o CollapseFrom(str, SkipSpace(str, i))
    ELSE << str[i] >> \o CollapseFrom(str, i + 1)

CollapseSpaces(str) == CollapseFrom(str, 1)

\* normalizeName, line 105
normalizeName(name) == toLowerCase(CollapseSpaces(trim(StripParentheticals(name))))

\* normalizeId, line 107
normalizeId(id) == normalizeName(id)

\* cleaned.split(' ').filter(Boolean): the maximal runs without a space
RECURSIVE SplitFrom(_, _, _)
SplitFrom(str, i, word) ==
    IF i > Len(str) THEN (IF word = << >> THEN << >> ELSE << word >>)
    ELSE IF str[i] = " "
    THEN (IF word = << >> THEN << >> ELSE << word >>) \o SplitFrom(str, i + 1, << >>)
    ELSE SplitFrom(str, i + 1, Append(word, str[i]))

\* part.charAt(0).toUpperCase() + part.slice(1).toLowerCase()
Capitalize(part) ==
    << UpperOf(part[1]) >> \o toLowerCase(SubSeq(part, 2, Len(part)))

RECURSIVE JoinWords(_)
JoinWords(words) ==
    IF words = << >> THEN << >>
    ELSE IF Len(words) = 1 THEN words[1]
    ELSE words[1] \o << " " >> \o JoinWords(Tail(words))

\* formatDisplayName, lines 109-119
formatDisplayName(name) ==
    LET cleaned == trim(StripParentheticals(name))
        parts == SplitFrom(cleaned, 1, << >>)
    IN  IF cleaned = << >> THEN name
        ELSE JoinWords([k \in 1..Len(parts) |-> Capitalize(parts[k])])

\* id.trim().toUpperCase() === 'ALL', line 147
IsWildcard(id) == toUpperCase(trim(id)) = << "A", "L", "L" >>

----------------------------------------------------------------------------
(* sortEventKeys, lines 72-78 *)

DigitOf(c) ==
    CASE c = "0" -> 0 [] c = "1" -> 1 [] c = "2" -> 2 [] c = "3" -> 3
      [] c = "4" -> 4 [] c = "5" -> 5 [] c = "6" -> 6 [] c = "7" -> 7
      [] c = "8" -> 8 [] c = "9" -> 9 [] OTHER -> -1

\* Number(key.replace(/\D+/g, '')): the digits of the key read as one
\* number, 0 for a key without digits
RECURSIVE NumberFrom(_, _, _)
NumberFrom(key, i, acc) ==
    IF i > Len(key) THEN acc
    ELSE IF DigitOf(key[i]) >= 0 THEN NumberFrom(key, i + 1, acc * 10 + DigitOf(key[i]))
    ELSE NumberFrom(key, i + 1, acc)

numberFromKey(key) == NumberFrom(key, 1, 0)

\* insert key behind the keys that do not compare greater (a stable sort)
RECURSIVE InsertKey(_, _)
InsertKey(sorted, key) ==
    IF sorted = << >> THEN << key >>
    ELSE IF numberFromKey(Head(sorted)) - numberFromKey(key) <= 0
    THEN << Head(sorted) >> \o InsertKey(Tail(sorted), key)
    ELSE << key >> \o sorted

RECURSIVE SortFrom(_, _, _)
SortFrom(keys, i, sorted) ==
    IF i > Len(keys) THEN sorted
    ELSE SortFrom(keys, i + 1, InsertKey(sorted, keys[i]))

\* the keys left in the order Object.keys returns them
KeysAsInserted(keys) == keys

sortEventKeys(keys) == SortFrom(keys, 1, << >>)

----------------------------------------------------------------------------
(* buildGraphFromScene, src/src/App.tsx lines 121-200.  A value that may be *)
(* undefined carries a `present` flag.                                     *)

AbsentList == [present |-> FALSE, items |-> << >>]

List(items) == [present |-> TRUE, items |-> items]

AbsentEvent ==
    [present |-> FALSE, title |-> "", initiators |-> AbsentList, receivers |-> AbsentList]

SceneEvent(title, initiators, receivers) ==
    [present |-> TRUE, title |-> title, initiators |-> initiators, receivers |-> receivers]

AbsentScene == [present |-> FALSE, characters |-> AbsentList, actions |-> AbsentList]

Scene(characters, actions) ==
    [present |-> TRUE, characters |-> characters, actions |-> actions]

\* the three scoring dimensions of a profile and the stat they become
StatOf(dimension) ==
    CASE dimension = "fool-hero" -> "foolHero"
      [] dimension = "angel-demon" -> "angelDemon"
      [] dimension = "traditionalist-adventurer" -> "tradAdv"

\* normalizeCharacterStats, lines 90-103: the stats a profile yields, as the
\* set of the StatPairs built (buildStatPair, lines 80-88); the empty set
\* stands for undefined
normalizeCharacterStats(profile) ==
    IF ~profile.present THEN {}
    ELSE {StatOf(d) : d \in profile.dimensions}

\* Map.has / Map.get on a Map kept as the sequence of its entries in
\* insertion order: the index of key, 0 when absent
KeyIndex(map, key) ==
    LET hits == {i \in 1..Len(map) : map[i].key = key}
    IN  IF hits = {} THEN 0 ELSE CHOOSE i \in hits : TRUE

\* Map.set: a new key is appended, an existing key keeps its place and
\* takes the new value
MapSet(map, key, value) ==
    IF KeyIndex(map, key) = 0 THEN Append(map, [key |-> key, value |-> value])
    ELSE [map EXCEPT ![KeyIndex(map, key)].value = value]

\* the forEach of lines 128-137: characterMap and normalizedCharacterKeys,
\* one Map here, key normalizedId, value (rawId, label, stats)
RECURSIVE CharactersFrom(_, _, _)
CharactersFrom(entries, i, map) ==
    IF i > Len(entries) THEN map
    ELSE LET normalizedId == normalizeId(entries[i].rawId)
         IN  IF KeyIndex(map, normalizedId) # 0
             THEN CharactersFrom(entries, i + 1, map)
             ELSE CharactersFrom(entries, i + 1,
                      MapSet(map, normalizedId,
                             [rawId |-> entries[i].rawId,
                              label |-> formatDisplayName(entries[i].rawId),
                              stats |-> normalizeCharacterStats(entries[i].profile)]))

CharacterMap(entries) == CharactersFrom(entries, 1, << >>)

\* the keys of normalizedCharacterKeys instead of its values
CharacterKeys(map) == [i \in 1..Len(map) |-> map[i].key]

\* Array.from(normalizedCharacterKeys.values()), line 141
CharacterIds(map) == [i \in 1..Len(map) |-> map[i].value.rawId]

\* one step of the forEach of expandParticipants, lines 145-155; st holds
\* the array expanded and the Map groupNodes
ExpandOne(map, st, id) ==
    LET normalizedId == normalizeId(id)
    IN  IF IsWildcard(id)
        THEN [st EXCEPT !.expanded = @ \o CharacterIds(map)]
        ELSE IF KeyIndex(map, normalizedId) # 0
        THEN [st EXCEPT !.expanded =
                            Append(@, map[KeyIndex(map, normalizedId)].value.rawId)]
        ELSE [st EXCEPT !.expanded = Append(@, normalizedId),
                        !.groupNodes = MapSet(@, normalizedId, formatDisplayName(id))]

RECURSIVE ExpandFrom(_, _, _, _)
ExpandFrom(map, items, i, st) ==
    IF i > Len(items) THEN st
    ELSE ExpandFrom(map, items, i + 1, ExpandOne(map, st, items[i]))

\* expandParticipants, lines 143-157: participants.forEach of an undefined
\* list raises a TypeError
expandParticipants(map, participants, groupNodes) ==
    IF ~participants.present
    THEN [threw |-> TRUE, expanded |-> << >>, groupNodes |-> groupNodes]
    ELSE LET st == ExpandFrom(map, participants.items, 1,
                              [expanded |-> << >>, groupNodes |-> groupNodes])
         IN  [threw |-> FALSE, expanded |-> st.expanded, groupNodes |-> st.groupNodes]

\* the nested forEach of lines 167-171: initiators outside, receivers inside
RECURSIVE CrossFrom(_, _, _, _)
CrossFrom(initiators, receivers, title, n) ==
    IF n >= Len(initiators) * Len(receivers) THEN << >>
    ELSE << [source |-> initiators[(n \div Len(receivers)) + 1],
             target |-> receivers[(n % Len(receivers)) + 1],
             relationship |-> title] >>
         \o CrossFrom(initiators, receivers, title, n + 1)

\* seq without the repetitions of an element
RECURSIVE Distinct(_, _)
Distinct(seq, seen) ==
    IF seq = << >> THEN << >>
    ELSE IF Head(seq) \in seen THEN Distinct(Tail(seq), seen)
    ELSE << Head(seq) >> \o Distinct(Tail(seq), seen \cup {Head(seq)})

\* links that keep one edge per distinct (source, target) pair
EventLinksDistinct(initiators, receivers, title) ==
    Distinct(CrossFrom(initiators, receivers, title, 0), {})

\* links that loop every initiator onto itself when there is no receiver
EventLinksSelfLoop(initiators, receivers, title) ==
    IF receivers = << >>
    THEN [k \in 1..Len(initiators) |->
             [source |-> initiators[k], target |-> initiators[k],
              relationship |-> title]]
    ELSE CrossFrom(initiators, receivers, title, 0)

EventLinks(initiators, receivers, title) == CrossFrom(initiators, receivers, title, 0)

\* scene.actions[eventKey], line 160
EventOf(actions, eventKey) == actions[KeyIndex(actions, eventKey)].value

\* the callback of the flatMap, lines 159-173, for one event key; st holds
\* the edges so far, groupNodes and whether an exception was raised
EventStep(map, actions, eventKey, st) ==
    LET event == EventOf(actions, eventKey)
        ini == expandParticipants(map, event.initiators, st.groupNodes)
        rec == expandParticipants(map, event.receivers, ini.groupNodes)
    IN  IF ~event.present THEN st
        ELSE IF ini.threw THEN [st EXCEPT !.threw = TRUE]
        ELSE IF rec.threw
        THEN [st EXCEPT !.threw = TRUE, !.groupNodes = ini.groupNodes]
        ELSE [st EXCEPT !.edges = @ \o EventLinks(ini.expanded, rec.expanded, event.title),
                        !.groupNodes = rec.groupNodes]

RECURSIVE EventsFrom(_, _, _, _, _)
EventsFrom(map, actions, keys, i, st) ==
    IF i > Len(keys) \/ st.threw THEN st
    ELSE EventsFrom(map, actions, keys, i + 1, EventStep(map, actions, keys[i], st))

\* Object.keys(scene.actions)
ActionKeys(actions) == [i \in 1..Len(actions) |-> actions[i].key]

\* usedNodeIds, lines 175-179
UsedNodeIds(edges) ==
    {edges[i].source : i \in 1..Len(edges)} \cup {edges[i].target : i \in 1..Len(edges)}

\* Array.filter
RECURSIVE Filter(_, _)
Filter(seq, keep) ==
    IF seq = << >> THEN << >>
    ELSE IF Head(seq) \in keep THEN << Head(seq) >> \o Filter(Tail(seq), keep)
    ELSE Filter(Tail(seq), keep)

\* seq back to front
Reversed(seq) == [i \in 1..Len(seq) |-> seq[Len(seq) + 1 - i]]

\* character nodes collected front-first (unshift), so in reverse roster order
CharacterNodesReversed(map, used) ==
    LET kept == Filter(Reversed(map), {e \in {map[i] : i \in 1..Len(map)} :
                                e.value.rawId # << >> /\ e.value.rawId \in used})
    IN  [i \in 1..Len(kept) |->
            [id |-> kept[i].value.rawId, label |-> kept[i].value.label,
             stats |-> kept[i].value.stats, group |-> "none"]]

\* characterNodes, lines 181-193; originalId && ... drops the empty string
CharacterNodes(map, used) ==
    LET kept == Filter(map, {e \in {map[i] : i \in 1..Len(map)} :
                                e.value.rawId # << >> /\ e.value.rawId \in used})
    IN  [i \in 1..Len(kept) |->
            [id |-> kept[i].value.rawId, label |-> kept[i].value.label,
             stats |-> kept[i].value.stats, group |-> "none"]]

\* groupNodesArray, lines 195-197
GroupNodesArray(groupNodes, used) ==
    LET kept == Filter(groupNodes, {e \in {groupNodes[i] : i \in 1..Len(groupNodes)} :
                                       e.key \in used})
    IN  [i \in 1..Len(kept) |->
            [id |-> kept[i].key, label |-> kept[i].value, stats |-> {},
             group |-> "group"]]

NullResult == [kind |-> "null", nodes |-> << >>, edges |-> << >>]

ThrownResult == [kind |-> "throw", nodes |-> << >>, edges |-> << >>]

\* the edges and the Map groupNodes when the flatMap of lines 159-173 is
\* through, for a scene with a roster and an actions object
FlatMapped(sc) ==
    LET actions == sc.actions.items
    IN  EventsFrom(CharacterMap(sc.characters.items), actions,
                   sortEventKeys(ActionKeys(actions)), 1,
                   [edges |-> << >>, groupNodes |-> << >>, threw |-> FALSE])

\* buildGraphFromScene, lines 121-200: Object.entries(undefined) and
\* Object.keys(undefined) raise a TypeError
buildGraphFromScene(sc) ==
    IF ~sc.present THEN NullResult
    ELSE IF ~sc.characters.present THEN ThrownResult
    ELSE IF ~sc.actions.present THEN ThrownResult
    ELSE LET map == CharacterMap(sc.characters.items)
             st == FlatMapped(sc)
             used == UsedNodeIds(st.edges)
         IN  IF st.threw THEN ThrownResult
             ELSE [kind |-> "graph",
                   nodes |-> CharacterNodes(map, used) \o GroupNodesArray(st.groupNodes, used),
                   edges |-> st.edges]

----------------------------------------------------------------------------
(* Inputs: the scenes handed to the builder *)

NameA == << "A" >>

NameALower == << "a" >>

NameANoted == << "A", " ", "(", "x", ")" >>

NameB == << "B" >>

NameBNoted == << "B", "(", "x", ")" >>

NameAll == << "A", "l", "l" >>

TokenALL == << "A", "L", "L" >>

GroupG == << "G" >>

GroupGNoted == << " ", "g", " ", "(", "x", ")" >>

\* two spellings of one group that differ in the whitespace between words
GroupGB == << "g", " ", "b" >>

GroupGLfB == << "G", "LF", "b" >>

\* the empty string
NameEmpty == << >>

\* a name that is one parenthetical, and a token with a line feed between
\* the parentheses
NameBlank == << "(", " ", ")" >>

GroupLf == << "(", "LF", ")" >>

AllDimensions == {"fool-hero", "angel-demon", "traditionalist-adventurer"}

Profile(dimensions) == [present |-> TRUE, dimensions |-> dimensions]

AbsentProfile == [present |-> FALSE, dimensions |-> {}]

Character(rawId, profile) == [rawId |-> rawId, profile |-> profile]

\* scene.characters: the entries of the object in key order
Rosters ==
    { List(<< Character(NameA, Profile(AllDimensions)), Character(NameB, Profile({})) >>),
      List(<< Character(NameANoted, Profile({"fool-hero"})),
              Character(NameALower, Profile(AllDimensions)),
              Character(NameB, AbsentProfile) >>),
      List(<< Character(NameAll, Profile({"angel-demon"})),
              Character(NameA, Profile(AllDimensions)) >>),
      List(<< Character(NameEmpty, Profile(AllDimensions)),
              Character(NameB, Profile(AllDimensions)) >>),
      List(<< Character(NameBlank, Profile({"fool-hero"})),
              Character(NameA, Profile(AllDimensions)) >>),
      List(<< >>) }

\* the values of scene.actions: well-formed events, events lacking a list,
\* and an absent value
Events ==
    { SceneEvent("greets", List(<< NameA >>), List(<< NameB >>)),
      SceneEvent("rallies", List(<< TokenALL >>), List(<< NameALower, GroupG >>)),
      SceneEvent("waits", List(<< GroupG, GroupGNoted >>), List(<< >>)),
      SceneEvent("warns", List(<< NameBNoted >>), List(<< TokenALL >>)),
      SceneEvent("hails", List(<< NameA >>), List(<< NameAll >>)),
      SceneEvent("gathers", List(<< GroupGB, GroupGLfB >>), List(<< NameEmpty >>)),
      SceneEvent("summons", List(<< TokenALL >>), List(<< >>)),
      SceneEvent("echoes", List(<< NameBlank >>), List(<< GroupLf >>)),
      SceneEvent("hides", AbsentList, List(<< NameB >>)),
      SceneEvent("calls", List(<< NameA >>), AbsentList),
      AbsentEvent }

\* the key of the i-th entry of scene.actions: e10, e2, e3, ... (insertion
\* order is not numeric order)
EventKey(i) ==
    IF i = 1 THEN << "e", "1", "0" >>
    ELSE << "e", CHOOSE c \in {"2", "3", "4", "5", "6", "7", "8", "9"} : DigitOf(c) = i >>

ActionMaps ==
    { List([i \in DOMAIN f |-> [key |-> EventKey(i), value |-> f[i]]]) :
          f \in UNION {[1..n -> Events] : n \in 0..MaxEvents} }

Scenes ==
    {AbsentScene} \cup
    { Scene(c, a) : c \in Rosters \cup {AbsentList}, a \in ActionMaps \cup {AbsentList} }

NotBuilt == [kind |-> "none", nodes |-> << >>, edges |-> << >>]

\* the effect of SceneGraph has not run yet
NotLinked == [done |-> FALSE, nodes |-> << >>, links |-> << >>]

\* nothing rendered yet
NotDrawn == [drawn |-> FALSE, paths |-> << >>]

----------------------------------------------------------------------------
(* decoratedEdges, lines 207-225, and the edge paths of the svg, lines     *)
(* 301-316.  Node ids are strings kept as sequences of characters.         *)

\* the UTF-16 code unit of a character of an id
CodeOf(c) ==
    CASE c = "-" -> 45
      [] c = "A" -> 65
      [] c = "B" -> 66
      [] c = "C" -> 67
      [] c = "X" -> 88
      [] c = "|" -> 124

\* a < b as Array.prototype.sort compares two strings by default: by code
\* units, a proper prefix first
RECURSIVE Less(_, _)
Less(a, b) ==
    IF b = << >> THEN FALSE
    ELSE IF a = << >> THEN TRUE
    ELSE IF CodeOf(Head(a)) # CodeOf(Head(b)) THEN CodeOf(Head(a)) < CodeOf(Head(b))
    ELSE Less(Tail(a), Tail(b))

\* [edge.source, edge.target].sort()
SortPair(a, b) == IF Less(b, a) THEN << b, a >> ELSE << a, b >>

\* the pair joined by the bar: Array.prototype.join('|') concatenates
JoinPair(pair) == pair[1] \o << "|" >> \o pair[2]

\* the key of line 210
GroupKey(edge) == JoinPair(SortPair(edge.source, edge.target))

\* the forEach of lines 209-214: the Map grouped, entries in insertion order
RECURSIVE GroupedFrom(_, _, _)
GroupedFrom(edges, k, grouped) ==
    IF k > Len(edges) THEN grouped
    ELSE LET key == GroupKey(edges[k])
             at == KeyIndex(grouped, key)
             existing == IF at = 0 THEN << >> ELSE grouped[at].value
         IN  GroupedFrom(edges, k + 1, MapSet(grouped, key, Append(existing, edges[k])))

Grouped(edges) == GroupedFrom(edges, 1, << >>)

\* String(index) for the template literal of line 221
RECURSIVE DigitsOf(_)
DigitsOf(n) ==
    LET digit == << "0", "1", "2", "3", "4", "5", "6", "7", "8", "9" >>[(n % 10) + 1]
    IN  IF n < 10 THEN << digit >> ELSE DigitsOf(n \div 10) \o << digit >>

\* `${groupKey}-${index}`
RenderKey(groupKey, index) == groupKey \o << "-" >> \o DigitsOf(index)

\* offsets counted from the first edge of the group instead of centred
CurveIndexFromFirst(index, count) == 2 * index

\* offsets of line 219, counted in halves: index - (count - 1) / 2 is
\* (2 * index - (count - 1)) halves; index is 0-based
CurveIndex(index, count) == IF count = 1 THEN 0 ELSE 2 * index - (count - 1)

\* lines 218-222 for one group
DecorateGroup(group) ==
    LET count == Len(group.value)
    IN  [i \in 1..count |->
            [source |-> group.value[i].source,
             target |-> group.value[i].target,
             relationship |-> group.value[i].relationship,
             curveIndex |-> CurveIndex(i - 1, count),
             groupSize |-> count,
             renderKey |-> RenderKey(group.key, i - 1)]]

RECURSIVE DecorateFrom(_, _)
DecorateFrom(grouped, k) ==
    IF k > Len(grouped) THEN << >>
    ELSE DecorateGroup(grouped[k]) \o DecorateFrom(grouped, k + 1)

decoratedEdges(edges) == DecorateFrom(Grouped(edges), 1)

\* positionLookup.get(id), line 205: a Map built from the snapshot
positionLookup(snapshot, id) == NodeIndexOf(snapshot, id)

\* the callback of decoratedEdges.map, lines 301-316: null (drawn FALSE)
\* or the path M source Q c target
EdgePath(edge, snapshot) ==
    LET si == positionLookup(snapshot, edge.source)
        ti == positionLookup(snapshot, edge.target)
        source == snapshot[si]
        target == snapshot[ti]
        midX == TruncDiv(source.x + target.x, 2)
        midY == TruncDiv(source.y + target.y, 2)
        dx == Tenths(target.x - source.x)
        dy == Tenths(target.y - source.y)
        distance == Max(Sqrt(dx * dx + dy * dy), MIN_DISTANCE)
        normalX == TruncDiv((-dy) * edge.curveIndex * CURVE_SPACING * MILLI, 2 * distance)
        normalY == TruncDiv(dx * edge.curveIndex * CURVE_SPACING * MILLI, 2 * distance)
    IN  IF si = 0 \/ ti = 0
        THEN [drawn |-> FALSE, edge |-> edge, sx |-> 0, sy |-> 0, cx |-> 0, cy |-> 0,
              tx |-> 0, ty |-> 0]
        ELSE [drawn |-> TRUE, edge |-> edge, sx |-> source.x, sy |-> source.y,
              cx |-> midX + normalX, cy |-> midY + normalY,
              tx |-> target.x, ty |-> target.y]

\* the children of g.graph-links, lines 300-360
Render(g, snapshot) ==
    LET decorated == decoratedEdges(g.edges)
    IN  [drawn |-> TRUE,
         paths |-> [k \in 1..Len(decorated) |-> EdgePath(decorated[k], snapshot)]]

----------------------------------------------------------------------------
(* Inputs: the graphs and snapshots handed to the renderer *)

IdA == << "A" >>

IdB == << "B" >>

IdC == << "C" >>

IdAB == << "A", "|", "B" >>

IdBC == << "B", "|", "C" >>

Edge(source, target, relationship) ==
    [source |-> source, target |-> target, relationship |-> relationship]

\* IdBC is the id of no node
RenderNodes == << [id |-> IdA], [id |-> IdB], [id |-> IdAB], [id |-> IdC] >>

EdgePool ==
    { Edge(IdA, IdB, "meets"), Edge(IdB, IdA, "answers"), Edge(IdAB, IdC, "joins"),
      Edge(IdA, IdBC, "calls"), Edge(IdB, IdC, "sees"), Edge(IdA, IdA, "muses") }

RenderGraphs ==
    { [nodes |-> RenderNodes, edges |-> e] :
          e \in UNION {[1..n -> EdgePool] : n \in 0..MaxEdges} }

\* every node at the centre of the viewport
Stacked(nodes) == [i \in 1..Len(nodes) |-> [nodes[i] EXCEPT !.x = centerX, !.y = centerY]]

\* the snapshots: the seeds, the seeds one tick later, all nodes stacked
Snapshots(g) ==
    LET seeded == createInitialNodes(g)
        phases == TickPhases(seeded, BuildLinks(g, seeded))
    IN  {seeded, phases[Len(phases)].nodes, Stacked(seeded)}

----------------------------------------------------------------------------
(* The state machine *)

NoEffect == [loop |-> 0, frameId |-> 0]

NoTick == [loop |-> 0]

FrameDeltas == {16, 48}

NoPublish == [loop |-> 0, timestamp |-> -1]

NoCapture == [p \in PointerIds |-> NoNode]

\* hoveredEdgeKey = null
NoEdgeKey == [present |-> FALSE, key |-> << >>]

\* hoveredEdge = null
NoTooltip == [present |-> FALSE, x |-> 0, y |-> 0, label |-> ""]

\* acted: the handler got past its guards
Event(kind, pointerId, nodeId, pt, acted) ==
    [kind |-> kind, pointerId |-> pointerId, nodeId |-> nodeId,
     x |-> pt.x, y |-> pt.y, acted |-> acted]

\* the history every handler leaves
Record(event) ==
    /\ lastEvent' = event
    /\ prevEvent' = lastEvent
    /\ before' = [nodes |-> nodesRef, positions |-> positions,
                  drag |-> dragState, capture |-> capture]
    /\ steps' = steps + 1
    /\ UNCHANGED << scene, built, view, text, normal, sceneData, sceneGraph >>

Origin == [x |-> 0, y |-> 0]

\* requestAnimationFrame(tick) of a loop: the callback with its closure
\* (links, lastUpdate)
Frame(id, loop, links, lastUpdate) ==
    [id |-> id, loop |-> loop, links |-> links, lastUpdate |-> lastUpdate]

\* a tick that schedules no next frame
RescheduleNever(queue, f, next) == queue \ {f}

\* the browser takes the callback f off its list to run it, and the last
\* statement of tick, line 195, requests the next frame
Reschedule(queue, f, next) == (queue \ {f}) \cup {next}

\* an effect without its cleanup
CleanupNothing(queue, eff) == queue

\* the cleanup of lines 200-202: cancelAnimationFrame(frameId)
Cleanup(queue, eff) ==
    IF eff = NoEffect THEN queue ELSE {f \in queue : f.id # eff.frameId}

\* createInitialNodes(g) with the kinematic state of the old array carried
\* over to the nodes whose id it already held
KeepOld(seeded) ==
    [i \in 1..Len(seeded) |->
        IF FindIndex(nodesRef, seeded[i].id) = 0 THEN seeded[i]
        ELSE nodesRef[FindIndex(nodesRef, seeded[i].id)]]

\* an effect that preserves the layout across graph changes
RunEffectKeeping(g, queue) ==
    LET seeded == KeepOld(createInitialNodes(g))
    IN  /\ graph' = g
        /\ nodesRef' = seeded
        /\ positions' = seeded
        /\ hoveredEdgeKey' = NoEdgeKey
        /\ hoveredEdge' = NoTooltip
        /\ UNCHANGED hoveredNodeId
        /\ IF Len(g.nodes) = 0
           THEN /\ effect' = NoEffect
                /\ rafQueue' = queue
                /\ UNCHANGED << nextFrameId, nextLoop >>
           ELSE /\ effect' = [loop |-> nextLoop, frameId |-> nextFrameId]
                /\ rafQueue' = queue \cup
                       {Frame(nextFrameId, nextLoop, BuildLinks(g, seeded), 0)}
                /\ nextFrameId' = nextFrameId + 1
                /\ nextLoop' = nextLoop + 1

\* the effect body, lines 108-198, run for graph g on the queue left by the
\* cleanup of the previous run
RunEffect(g, queue) ==
    LET seeded == createInitialNodes(g)
    IN  /\ graph' = g
        /\ nodesRef' = seeded
        /\ positions' = seeded
        /\ hoveredEdgeKey' = NoEdgeKey
        /\ hoveredEdge' = NoTooltip
        /\ UNCHANGED hoveredNodeId
        /\ IF Len(g.nodes) = 0
           THEN /\ effect' = NoEffect
                /\ rafQueue' = queue
                /\ UNCHANGED << nextFrameId, nextLoop >>
           ELSE /\ effect' = [loop |-> nextLoop, frameId |-> nextFrameId]
                /\ rafQueue' = queue \cup
                       {Frame(nextFrameId, nextLoop, BuildLinks(g, seeded), 0)}
                /\ nextFrameId' = nextFrameId + 1
                /\ nextLoop' = nextLoop + 1

\* the state after the component is mounted with one of the graphs and its
\* effect ran
MountedWith(graphs) ==
    /\ mounted = TRUE
    /\ graph \in graphs
    /\ nodesRef = createInitialNodes(graph)
    /\ positions = createInitialNodes(graph)
    /\ dragState = NoDrag
    /\ capture = NoCapture
    /\ IF Len(graph.nodes) = 0
       THEN effect = NoEffect /\ rafQueue = {} /\ nextFrameId = 1 /\ nextLoop = 1
       ELSE /\ effect = [loop |-> 1, frameId |-> 1]
            /\ rafQueue = {Frame(1, 1, BuildLinks(graph, createInitialNodes(graph)), 0)}
            /\ nextFrameId = 2
            /\ nextLoop = 2
    /\ now = 0
    /\ steps = 0
    /\ lastEvent = Event("mount", 0, NoNode, Origin, TRUE)
    /\ prevEvent = Event("none", 0, NoNode, Origin, FALSE)
    /\ before = [nodes |-> << >>, positions |-> << >>, drag |-> NoDrag,
                 capture |-> NoCapture]
    /\ lastTick = NoTick
    /\ tickPublish = NoPublish
    /\ scene = AbsentScene
    /\ built = NotBuilt
    /\ view = NotDrawn
    /\ text = << >>
    /\ normal = << >>
    /\ hoveredNodeId = NoNode
    /\ hoveredEdgeKey = NoEdgeKey
    /\ hoveredEdge = NoTooltip
    /\ sceneData = << >>
    /\ sceneGraph = NotLinked

Init == MountedWith(Graphs)

\* the graph prop changes: cleanup of the old effect, then the effect again
GraphChange(g) ==
    /\ mounted
    /\ steps < MaxSteps
    /\ RunEffect(g, Cleanup(rafQueue, effect))
    /\ Record(Event("graph", 0, NoNode, Origin, TRUE))
    /\ UNCHANGED << mounted, dragState, capture, now, lastTick, tickPublish >>

\* the component is torn down: only the cleanup runs
Unmount ==
    /\ mounted
    /\ steps < MaxSteps
    /\ mounted' = FALSE
    /\ rafQueue' = Cleanup(rafQueue, effect)
    /\ effect' = NoEffect
    /\ Record(Event("unmount", 0, NoNode, Origin, TRUE))
    /\ UNCHANGED << graph, nodesRef, positions, dragState, capture, nextFrameId,
                    nextLoop, now, lastTick, tickPublish, hoveredNodeId,
                    hoveredEdgeKey, hoveredEdge >>

\* the browser runs the pending callback f at a frame dt after the last one:
\* tick(timestamp), lines 141-196
RunTick(f, dt) ==
    /\ LET timestamp == now + dt
           phases == TickPhases(nodesRef, f.links)
           moved == phases[Len(phases)].nodes
           publish == ShouldPublish(timestamp, f.lastUpdate)
       IN  /\ now' = timestamp
           /\ nodesRef' = moved
           /\ positions' = IF publish THEN moved ELSE positions
           /\ rafQueue' = Reschedule(rafQueue, f,
                  Frame(nextFrameId, f.loop, f.links,
                        IF publish THEN timestamp ELSE f.lastUpdate))
           /\ effect' = IF effect # NoEffect /\ effect.loop = f.loop
                        THEN [effect EXCEPT !.frameId = nextFrameId]
                        ELSE effect
           /\ nextFrameId' = nextFrameId + 1
           /\ lastTick' = [loop |-> f.loop, timestamp |-> timestamp,
                           start |-> nodesRef, phases |-> phases,
                           links |-> f.links, lastUpdate |-> f.lastUpdate,
                           published |-> publish, previousPublish |-> tickPublish]
           /\ tickPublish' = IF publish
                             THEN [loop |-> f.loop, timestamp |-> timestamp]
                             ELSE tickPublish
    /\ Record(Event("tick", 0, NoNode, Origin, TRUE))
    /\ UNCHANGED << mounted, graph, dragState, capture, nextLoop, hoveredNodeId,
                    hoveredEdgeKey, hoveredEdge >>

Tick(f, dt) == steps < MaxSteps /\ RunTick(f, dt)

\* node elements exist (and receive pointer events) for the published nodes
Rendered == mounted /\ Len(positions) > 0

\* handlePointerDown, lines 258-262, on the element of node nodeId
PointerDown(p, nodeId, sample) ==
    /\ Rendered
    /\ steps < MaxSteps
    /\ \E i \in 1..Len(positions) : positions[i].id = nodeId
    /\ LET event == [pointerId |-> p, clientX |-> sample.clientX,
                     clientY |-> sample.clientY, bounds |-> sample.bounds]
           state == DownState(nodeId, p)
       IN  /\ dragState' = state
           /\ capture' = [capture EXCEPT ![p] = nodeId]
           /\ nodesRef' = updateDraggedNode(state, nodesRef, event)
           /\ positions' = DragPublish(state, nodesRef, event, positions)
           /\ Record(Event("down", p, nodeId, toGraphCoordinates(event),
                           DragTarget(state, nodesRef, p) # 0))
    /\ UNCHANGED << mounted, graph, effect, rafQueue, nextFrameId, nextLoop, now,
                    lastTick, tickPublish, hoveredNodeId, hoveredEdgeKey,
                    hoveredEdge >>

\* handlePointerMove, lines 264-266
PointerMove(p, sample) ==
    /\ Rendered
    /\ steps < MaxSteps
    /\ LET event == [pointerId |-> p, clientX |-> sample.clientX,
                     clientY |-> sample.clientY, bounds |-> sample.bounds]
       IN  /\ nodesRef' = updateDraggedNode(dragState, nodesRef, event)
           /\ positions' = DragPublish(dragState, nodesRef, event, positions)
           /\ Record(Event("move", p, dragState.nodeId, toGraphCoordinates(event),
                           DragTarget(dragState, nodesRef, p) # 0))
    /\ UNCHANGED << mounted, graph, dragState, capture, effect, rafQueue,
                    nextFrameId, nextLoop, now, lastTick, tickPublish,
                    hoveredNodeId, hoveredEdgeKey, hoveredEdge >>

\* handlePointerUp, lines 268-281: bound to pointerup, pointercancel and
\* pointerleave of every node element (lines 368-370)
PointerUp(p) ==
    /\ Rendered
    /\ steps < MaxSteps
    /\ nodesRef' = IF UpMatches(dragState, p)
                   THEN ReleaseNode(dragState, nodesRef, p) ELSE nodesRef
    /\ dragState' = IF UpMatches(dragState, p) THEN NoDrag ELSE dragState
    \* released by lines 278-280 when the guard passes, by the browser after
    \* pointerup / pointercancel otherwise
    /\ capture' = [capture EXCEPT ![p] = NoNode]
    /\ Record(Event("up", p, dragState.nodeId, Origin, UpMatches(dragState, p)))
    /\ UNCHANGED << mounted, graph, positions, effect, rafQueue, nextFrameId,
                    nextLoop, now, lastTick, tickPublish, hoveredNodeId,
                    hoveredEdgeKey, hoveredEdge >>

\* the id of a node of Graphs, a single letter, as its characters
Spell(id) == << id >>

\* the decorated edges that have a hit path: those of the graph prop whose
\* endpoints are both in the published snapshot, lines 301-306
HitPaths(g, shown) ==
    LET decorated == decoratedEdges([k \in 1..Len(g.edges) |->
                         Edge(Spell(g.edges[k].source), Spell(g.edges[k].target),
                              g.edges[k].relationship)])
        Shown(id) == \E i \in 1..Len(shown) : Spell(shown[i].id) = id
    IN  {decorated[k] : k \in {j \in 1..Len(decorated) :
             Shown(decorated[j].source) /\ Shown(decorated[j].target)}}

\* handleEdgePointerMove, lines 318-323: the tooltip it leaves
handleEdgePointerMove(edge, event, shown) ==
    IF edge.relationship = "" THEN shown
    ELSE [present |-> TRUE, x |-> event.clientX + 10, y |-> event.clientY + 10,
          label |-> edge.relationship]

\* onPointerEnter of a node element, line 371
NodePointerEnter(p, nodeId) ==
    /\ Rendered
    /\ steps < MaxSteps
    /\ \E i \in 1..Len(positions) : positions[i].id = nodeId
    /\ hoveredNodeId' = nodeId
    /\ Record(Event("node-enter", p, nodeId, Origin, TRUE))
    /\ UNCHANGED << mounted, graph, nodesRef, positions, dragState, capture, effect,
                    rafQueue, nextFrameId, nextLoop, now, lastTick, tickPublish,
                    hoveredEdgeKey, hoveredEdge >>

\* a pointer-out that also ends the drag in course, whoever holds it
NodePointerOutReleasing(p, nodeId) ==
    /\ Rendered
    /\ steps < MaxSteps
    /\ \E i \in 1..Len(positions) : positions[i].id = nodeId
    /\ hoveredNodeId' = IF hoveredNodeId = nodeId THEN NoNode ELSE hoveredNodeId
    /\ nodesRef' = ReleaseNode(dragState, nodesRef, dragState.pointerId)
    /\ dragState' = NoDrag
    /\ Record(Event("node-out", p, nodeId, Origin, hoveredNodeId = nodeId))
    /\ UNCHANGED << mounted, graph, positions, capture, effect, rafQueue,
                    nextFrameId, nextLoop, now, lastTick, tickPublish,
                    hoveredEdgeKey, hoveredEdge >>

\* onPointerOut of a node element, line 372
NodePointerOut(p, nodeId) ==
    /\ Rendered
    /\ steps < MaxSteps
    /\ \E i \in 1..Len(positions) : positions[i].id = nodeId
    /\ hoveredNodeId' = IF hoveredNodeId = nodeId THEN NoNode ELSE hoveredNodeId
    /\ Record(Event("node-out", p, nodeId, Origin, hoveredNodeId = nodeId))
    /\ UNCHANGED << mounted, graph, nodesRef, positions, dragState, capture, effect,
                    rafQueue, nextFrameId, nextLoop, now, lastTick, tickPublish,
                    hoveredEdgeKey, hoveredEdge >>

\* onPointerEnter of the hit path of an edge, lines 347-350
EdgePointerEnter(p, edge, sample) ==
    /\ mounted
    /\ steps < MaxSteps
    /\ hoveredEdgeKey' = [present |-> TRUE, key |-> edge.renderKey]
    /\ hoveredEdge' = handleEdgePointerMove(edge, sample, hoveredEdge)
    /\ Record(Event("edge-enter", p, NoNode, Origin, TRUE))
    /\ UNCHANGED << mounted, graph, nodesRef, positions, dragState, capture, effect,
                    rafQueue, nextFrameId, nextLoop, now, lastTick, tickPublish,
                    hoveredNodeId >>

\* onPointerMove of the hit path of an edge, line 351
EdgePointerMove(p, edge, sample) ==
    /\ mounted
    /\ steps < MaxSteps
    /\ hoveredEdge' = handleEdgePointerMove(edge, sample, hoveredEdge)
    /\ Record(Event("edge-move", p, NoNode, Origin, edge.relationship # ""))
    /\ UNCHANGED << mounted, graph, nodesRef, positions, dragState, capture, effect,
                    rafQueue, nextFrameId, nextLoop, now, lastTick, tickPublish,
                    hoveredNodeId, hoveredEdgeKey >>

\* onPointerLeave of the hit path of an edge, lines 352-355
EdgePointerLeave(p, edge) ==
    /\ mounted
    /\ steps < MaxSteps
    /\ hoveredEdgeKey' = NoEdgeKey
    /\ hoveredEdge' = NoTooltip
    /\ Record(Event("edge-leave", p, NoNode, Origin, TRUE))
    /\ UNCHANGED << mounted, graph, nodesRef, positions, dragState, capture, effect,
                    rafQueue, nextFrameId, nextLoop, now, lastTick, tickPublish,
                    hoveredNodeId >>

Next ==
    \/ \E g \in Graphs : GraphChange(g)
    \/ Unmount
    \/ \E f \in rafQueue, dt \in FrameDeltas : Tick(f, dt)
    \/ \E p \in PointerIds, n \in NodeIds, s \in PointerSamples : PointerDown(p, n, s)
    \/ \E p \in PointerIds, s \in PointerSamples : PointerMove(p, s)
    \/ \E p \in PointerIds : PointerUp(p)

Spec == Init /\ [][Next]_vars

\* the component left to itself: mounted with a graph of two nodes and one
\* edge, no pointer input, a frame every 16 ms
SettleInit == MountedWith(PairGraphs)

SettleTick ==
    /\ steps < MaxTicks
    /\ \E f \in rafQueue, dt \in {d \in FrameDeltas : d < UPDATE_INTERVAL} :
           RunTick(f, dt)

SettleNext == SettleTick

SettleSpec == SettleInit /\ [][SettleNext]_vars

\* the pointer that hovers: it may be the one that drags or the other one
HoverPointerIds == {2}

\* the component with the hover handlers of its node and edge elements
HoverNext ==
    \/ Next
    \/ \E p \in HoverPointerIds, n \in NodeIds : NodePointerEnter(p, n)
    \/ \E p \in HoverPointerIds, n \in NodeIds : NodePointerOut(p, n)
    \/ \E p \in HoverPointerIds, e \in HitPaths(graph, positions), s \in PointerSamples :
           EdgePointerEnter(p, e, s)
    \/ \E p \in HoverPointerIds, e \in HitPaths(graph, positions), s \in PointerSamples :
           EdgePointerMove(p, e, s)
    \/ \E p \in HoverPointerIds, e \in HitPaths(graph, positions) : EdgePointerLeave(p, e)

HoverSpec == Init /\ [][HoverNext]_vars

----------------------------------------------------------------------------
(* The builder applied to a scene *)

BuilderInit ==
    /\ scene \in Scenes
    /\ built = NotBuilt
    /\ mounted = FALSE
    /\ graph = GraphEmpty
    /\ nodesRef = << >>
    /\ positions = << >>
    /\ dragState = NoDrag
    /\ capture = NoCapture
    /\ effect = NoEffect
    /\ rafQueue = {}
    /\ nextFrameId = 1
    /\ nextLoop = 1
    /\ now = 0
    /\ steps = 0
    /\ lastEvent = Event("none", 0, NoNode, Origin, FALSE)
    /\ prevEvent = Event("none", 0, NoNode, Origin, FALSE)
    /\ before = [nodes |-> << >>, positions |-> << >>, drag |-> NoDrag,
                 capture |-> NoCapture]
    /\ lastTick = NoTick
    /\ tickPublish = NoPublish
    /\ view = NotDrawn
    /\ text = << >>
    /\ normal = << >>
    /\ hoveredNodeId = NoNode
    /\ hoveredEdgeKey = NoEdgeKey
    /\ hoveredEdge = NoTooltip
    /\ sceneData = << >>
    /\ sceneGraph = NotLinked

\* useMemo(() => buildGraphFromScene(currentScene)), App.tsx line 221
Build ==
    /\ built = NotBuilt
    /\ built' = buildGraphFromScene(scene)
    /\ UNCHANGED << mounted, graph, nodesRef, positions, dragState, capture, effect,
                    rafQueue, nextFrameId, nextLoop, now, steps, lastEvent,
                    prevEvent, before, lastTick, tickPublish, scene, view, text,
                    normal, hoveredNodeId, hoveredEdgeKey, hoveredEdge,
                    sceneData, sceneGraph >>

BuilderNext == Build

BuilderSpec == BuilderInit /\ [][BuilderNext]_vars

----------------------------------------------------------------------------
(* The SceneGraph variant, src/unnamed/part_001: nodes and links built from *)
(* the sceneData prop, lines 54-82                                          *)

\* RELATIONSHIP_TEMPLATES, lines 27-33: the two ends of the label; the
\* arrow of the last key is written ->
RELATIONSHIP_TEMPLATES ==
    [type \in {"One-to-One (1:1)", "One-to-Many (1:M)", "Many-to-One (M:1)",
               "Many-to-Many (M:N)", "Self-loop (1->1)"} |->
        CASE type = "One-to-One (1:1)" -> << "1", "1" >>
          [] type = "One-to-Many (1:M)" -> << "1", "*" >>
          [] type = "Many-to-One (M:1)" -> << "*", "1" >>
          [] type = "Many-to-Many (M:N)" -> << "*", "*" >>
          [] type = "Self-loop (1->1)" -> << "1", "1" >>]

\* formatEdgeLabel, lines 35-41: the pieces of the label in order
formatEdgeLabel(relationshipType, actionName) ==
    IF relationshipType \in DOMAIN RELATIONSHIP_TEMPLATES
    THEN << "[", RELATIONSHIP_TEMPLATES[relationshipType][1], " ", actionName, " ",
            RELATIONSHIP_TEMPLATES[relationshipType][2], "]" >>
    ELSE << "[", relationshipType, ": ", actionName, "]" >>

\* an element of sceneData
SceneDatum(relationshipType, actionName, initiators, receivers) ==
    [relationship_type |-> relationshipType, operation_action_name |-> actionName,
     initiators |-> initiators, receivers |-> receivers]

\* the default of the destructuring of line 58: [] for a list that is absent
OrEmpty(list) == IF list.present THEN list.items ELSE << >>

\* nodeSet.add for each name, lines 59-60: a Set keeps insertion order
RECURSIVE AddAll(_, _)
AddAll(set, names) ==
    IF names = << >> THEN set
    ELSE AddAll(IF \E k \in 1..Len(set) : set[k] = Head(names) THEN set
                ELSE Append(set, Head(names)), Tail(names))

\* the callback of initiators.forEach, lines 63-79
InitiatorLinks(event, initiator, targets) ==
    IF Len(targets) = 0
    THEN << [source |-> initiator, target |-> initiator,
             label |-> formatEdgeLabel("Self-loop (1->1)", event.operation_action_name)] >>
    ELSE [k \in 1..Len(targets) |->
             [source |-> initiator, target |-> targets[k],
              label |-> formatEdgeLabel(event.relationship_type,
                                        event.operation_action_name)]]

\* line 62: receivers.length > 0 ? receivers : initiators
Targets(initiators, receivers) ==
    IF Len(receivers) > 0 THEN receivers ELSE initiators

RECURSIVE EventLinksFrom(_, _, _, _)
EventLinksFrom(event, initiators, targets, k) ==
    IF k > Len(initiators) THEN << >>
    ELSE InitiatorLinks(event, initiators[k], targets)
         \o EventLinksFrom(event, initiators, targets, k + 1)

\* the callback of sceneData.forEach, lines 57-80, on the nodes and links
\* collected so far
SceneEventStep(event, st) ==
    LET initiators == OrEmpty(event.initiators)
        receivers == OrEmpty(event.receivers)
    IN  [done |-> TRUE,
         nodes |-> AddAll(AddAll(st.nodes, initiators), receivers),
         links |-> st.links \o
             EventLinksFrom(event, initiators, Targets(initiators, receivers), 1)]

RECURSIVE SceneGraphFrom(_, _, _)
SceneGraphFrom(data, i, st) ==
    IF i > Len(data) THEN st
    ELSE SceneGraphFrom(data, i + 1, SceneEventStep(data[i], st))

\* nodeSet and links after the forEach of lines 57-80
SceneGraphLinks(data) ==
    SceneGraphFrom(data, 1, [done |-> TRUE, nodes |-> << >>, links |-> << >>])

\* the events handed to SceneGraph: with and without receivers, with one
\* initiator, two, the same one twice, none, and lists that are absent
SceneData ==
    { SceneDatum("One-to-One (1:1)", "greets", List(<< "A" >>), List(<< "B" >>)),
      SceneDatum("Many-to-Many (M:N)", "meet", List(<< "A", "B" >>), List(<< "B", "C" >>)),
      SceneDatum("Self-loop (1->1)", "muses", List(<< "A" >>), List(<< >>)),
      SceneDatum("Many-to-Many (M:N)", "wait", List(<< "A", "B" >>), List(<< >>)),
      SceneDatum("Rivalry", "paces", List(<< "C", "C" >>), AbsentList),
      SceneDatum("One-to-Many (1:M)", "rests", List(<< >>), List(<< >>)),
      SceneDatum("Many-to-One (M:1)", "hears", AbsentList, List(<< "A" >>)) }

SceneGraphInit ==
    /\ sceneData \in UNION {[1..n -> SceneData] : n \in 0..MaxEvents}
    /\ sceneGraph = NotLinked
    /\ scene = AbsentScene
    /\ built = NotBuilt
    /\ mounted = FALSE
    /\ graph = GraphEmpty
    /\ nodesRef = << >>
    /\ positions = << >>
    /\ dragState = NoDrag
    /\ capture = NoCapture
    /\ effect = NoEffect
    /\ rafQueue = {}
    /\ nextFrameId = 1
    /\ nextLoop = 1
    /\ now = 0
    /\ steps = 0
    /\ lastEvent = Event("none", 0, NoNode, Origin, FALSE)
    /\ prevEvent = Event("none", 0, NoNode, Origin, FALSE)
    /\ before = [nodes |-> << >>, positions |-> << >>, drag |-> NoDrag,
                 capture |-> NoCapture]
    /\ lastTick = NoTick
    /\ tickPublish = NoPublish
    /\ view = NotDrawn
    /\ text = << >>
    /\ normal = << >>
    /\ hoveredNodeId = NoNode
    /\ hoveredEdgeKey = NoEdgeKey
    /\ hoveredEdge = NoTooltip

\* the effect of SceneGraph, lines 47-82, as far as the nodes and links
Link ==
    /\ ~sceneGraph.done
    /\ sceneGraph' = SceneGraphLinks(sceneData)
    /\ UNCHANGED << mounted, graph, nodesRef, positions, dragState, capture, effect,
                    rafQueue, nextFrameId, nextLoop, now, steps, lastEvent,
                    prevEvent, before, lastTick, tickPublish, scene, built, view,
                    text, normal, hoveredNodeId, hoveredEdgeKey, hoveredEdge,
                    sceneData >>

SceneGraphNext == Link

SceneGraphSpec == SceneGraphInit /\ [][SceneGraphNext]_vars

----------------------------------------------------------------------------
(* The renderer applied to a graph and a snapshot *)

RenderInit ==
    /\ graph \in RenderGraphs
    /\ positions \in Snapshots(graph)
    /\ nodesRef = positions
    /\ view = NotDrawn
    /\ mounted = TRUE
    /\ dragState = NoDrag
    /\ capture = NoCapture
    /\ effect = NoEffect
    /\ rafQueue = {}
    /\ nextFrameId = 1
    /\ nextLoop = 1
    /\ now = 0
    /\ steps = 0
    /\ lastEvent = Event("none", 0, NoNode, Origin, FALSE)
    /\ prevEvent = Event("none", 0, NoNode, Origin, FALSE)
    /\ before = [nodes |-> << >>, positions |-> << >>, drag |-> NoDrag,
                 capture |-> NoCapture]
    /\ lastTick = NoTick
    /\ tickPublish = NoPublish
    /\ scene = AbsentScene
    /\ built = NotBuilt
    /\ text = << >>
    /\ normal = << >>
    /\ hoveredNodeId = NoNode
    /\ hoveredEdgeKey = NoEdgeKey
    /\ hoveredEdge = NoTooltip
    /\ sceneData = << >>
    /\ sceneGraph = NotLinked

\* the render of the component, lines 283-360
Draw ==
    /\ ~view.drawn
    /\ view' = Render(graph, positions)
    /\ UNCHANGED << mounted, graph, nodesRef, positions, dragState, capture, effect,
                    rafQueue, nextFrameId, nextLoop, now, steps, lastEvent,
                    prevEvent, before, lastTick, tickPublish, scene, built, text,
                    normal, hoveredNodeId, hoveredEdgeKey, hoveredEdge,
                    sceneData, sceneGraph >>

RenderNext == Draw

RenderSpec == RenderInit /\ [][RenderNext]_vars

----------------------------------------------------------------------------
(* normalizeName applied to an identifier, and again to its result *)

\* the characters of the identifiers: letters of both cases, the two kinds
\* of whitespace, the parentheses
Alphabet == {"a", "A", " ", "LF", "(", ")"}

Texts == UNION {[1..n -> Alphabet] : n \in 0..MaxLen}

NormalizeInit ==
    /\ text \in Texts
    /\ normal = << >>
    /\ hoveredNodeId = NoNode
    /\ hoveredEdgeKey = NoEdgeKey
    /\ hoveredEdge = NoTooltip
    /\ sceneData = << >>
    /\ sceneGraph = NotLinked
    /\ view = NotDrawn
    /\ mounted = FALSE
    /\ graph = GraphEmpty
    /\ nodesRef = << >>
    /\ positions = << >>
    /\ dragState = NoDrag
    /\ capture = NoCapture
    /\ effect = NoEffect
    /\ rafQueue = {}
    /\ nextFrameId = 1
    /\ nextLoop = 1
    /\ now = 0
    /\ steps = 0
    /\ lastEvent = Event("none", 0, NoNode, Origin, FALSE)
    /\ prevEvent = Event("none", 0, NoNode, Origin, FALSE)
    /\ before = [nodes |-> << >>, positions |-> << >>, drag |-> NoDrag,
                 capture |-> NoCapture]
    /\ lastTick = NoTick
    /\ tickPublish = NoPublish
    /\ scene = AbsentScene
    /\ built = NotBuilt

\* normalizeName(text), then normalizeName of what it returned
Normalize ==
    /\ Len(normal) < 2
    /\ normal' = Append(normal, normalizeName(IF normal = << >> THEN text
                                               ELSE normal[Len(normal)]))
    /\ UNCHANGED << mounted, graph, nodesRef, positions, dragState, capture, effect,
                    rafQueue, nextFrameId, nextLoop, now, steps, lastEvent,
                    prevEvent, before, lastTick, tickPublish, scene, built, view,
                    text, hoveredNodeId, hoveredEdgeKey, hoveredEdge,
                    sceneData, sceneGraph >>

NormalizeNext == Normalize

NormalizeSpec == NormalizeInit /\ [][NormalizeNext]_vars

----------------------------------------------------------------------------
(* Properties of the layout engine and the interaction controller *)

Ticked == lastEvent.kind = "tick"

InBounds(node) ==
    /\ node.x >= NODE_RADIUS * MILLI
    /\ node.x <= (GRAPH_WIDTH - NODE_RADIUS) * MILLI
    /\ node.y >= NODE_RADIUS * MILLI
    /\ node.y <= (GRAPH_HEIGHT - NODE_RADIUS) * MILLI

SamePlace(a, b) == a.x = b.x /\ a.y = b.y

\* C1: a tick leaves every pinned node as it was: after each of the four
\* phases of a tick, a node whose isFixed was true when the tick started
\* has the x, y, vx and vy (and isFixed) it had at the start.
C1_PinInvariant ==
    Ticked =>
        \A i \in 1..Len(before.nodes) :
            before.nodes[i].isFixed =>
                /\ nodesRef[i] = before.nodes[i]
                /\ \A k \in 1..Len(lastTick.phases) :
                       lastTick.phases[k].nodes[i] = before.nodes[i]

\* a tick ran with a pinned node next to a free node that it moved
C1_Witness ==
    /\ Ticked
    /\ \E i, j \in 1..Len(before.nodes) :
           /\ before.nodes[i].isFixed
           /\ nodesRef[i] = before.nodes[i]
           /\ ~before.nodes[j].isFixed
           /\ ~SamePlace(nodesRef[j], before.nodes[j])

\* the node a pointer holds: the node whose element captured it at
\* pointer-down
Held(cap, p) == cap[p]

BothHeld(cap) ==
    /\ Held(cap, 1) # NoNode
    /\ Held(cap, 2) # NoNode
    /\ Held(cap, 1) # Held(cap, 2)
    /\ FindIndex(nodesRef, Held(cap, 1)) # 0
    /\ FindIndex(nodesRef, Held(cap, 2)) # 0

\* C2: while two pointers hold two different nodes (pointer-down of p1 on A,
\* then pointer-down of p2 on B), a move of either pointer puts the node that
\* pointer holds at the pointer's coordinate, and the pointer-up of either
\* pointer unpins the node it holds and leaves the other node pinned.
C2_TwoPointerDrag ==
    /\ (lastEvent.kind = "move" /\ BothHeld(before.capture)) =>
           LET k == FindIndex(nodesRef, Held(before.capture, lastEvent.pointerId))
           IN  /\ nodesRef[k].x = lastEvent.x
               /\ nodesRef[k].y = lastEvent.y
               /\ nodesRef[k].isFixed
    /\ (lastEvent.kind = "up" /\ BothHeld(before.capture)) =>
           LET k == FindIndex(nodesRef, Held(before.capture, lastEvent.pointerId))
               o == FindIndex(nodesRef, Held(before.capture, 3 - lastEvent.pointerId))
           IN  /\ ~nodesRef[k].isFixed
               /\ nodesRef[o].isFixed = before.nodes[o].isFixed

\* C3 as stated: after a tick every node, pinned or not, lies inside
\* [NODE_RADIUS, GRAPH_WIDTH - NODE_RADIUS] x [NODE_RADIUS, GRAPH_HEIGHT - NODE_RADIUS].
C3_ClampEveryNode ==
    Ticked => \A i \in 1..Len(nodesRef) : InBounds(nodesRef[i])

\* C3 amended: after a tick every node that is not pinned lies inside
\* [NODE_RADIUS, GRAPH_WIDTH - NODE_RADIUS] x [NODE_RADIUS, GRAPH_HEIGHT - NODE_RADIUS],
\* wherever drags left it before the tick.
C3_ClampUnpinned ==
    Ticked => \A i \in 1..Len(nodesRef) : ~nodesRef[i].isFixed => InBounds(nodesRef[i])

\* a tick brought back into the viewport a node a drag had left outside it
C3_Witness ==
    /\ Ticked
    /\ \E i \in 1..Len(nodesRef) :
           /\ ~before.nodes[i].isFixed
           /\ ~InBounds(before.nodes[i])
           /\ InBounds(nodesRef[i])

\* C4: a pointer-up / cancel / leave whose pointer id matches the drag record
\* clears the record and the isFixed flag of the dragged node and leaves the
\* node where it is; the tick that follows accumulates forces into that
\* node's velocity and integrates it from that position.
C4_DragEnd ==
    /\ (lastEvent.kind = "up" /\ UpMatches(before.drag, lastEvent.pointerId)) =>
           /\ dragState = NoDrag
           /\ LET k == FindIndex(before.nodes, before.drag.nodeId)
              IN  k # 0 => nodesRef[k] = [before.nodes[k] EXCEPT !.isFixed = FALSE]
    /\ (Ticked /\ prevEvent.kind = "up" /\ prevEvent.acted) =>
           LET k == FindIndex(before.nodes, prevEvent.nodeId)
               forced == lastTick.phases[3].nodes
           IN  k # 0 =>
                   /\ ~before.nodes[k].isFixed
                   /\ nodesRef[k].vx = Decay(forced[k].vx)
                   /\ nodesRef[k].vy = Decay(forced[k].vy)
                   /\ nodesRef[k].x = Clamp(NODE_RADIUS * MILLI,
                                            (GRAPH_WIDTH - NODE_RADIUS) * MILLI,
                                            before.nodes[k].x + nodesRef[k].vx)
                   /\ nodesRef[k].y = Clamp(NODE_RADIUS * MILLI,
                                            (GRAPH_HEIGHT - NODE_RADIUS) * MILLI,
                                            before.nodes[k].y + nodesRef[k].vy)

\* a released node was moved by the tick that followed its release
C4_Witness ==
    /\ Ticked
    /\ prevEvent.kind = "up"
    /\ prevEvent.acted
    /\ LET k == FindIndex(before.nodes, prevEvent.nodeId)
       IN  /\ k # 0
           /\ nodesRef[k].vx # 0
           /\ ~SamePlace(nodesRef[k], before.nodes[k])

\* the drag record the last pointer event acted under
ActiveRecord ==
    IF lastEvent.kind = "down"
    THEN [nodeId |-> lastEvent.nodeId, pointerId |-> lastEvent.pointerId]
    ELSE before.drag

\* C5: a pointer-down on a node records (nodeId, pointerId); it, and every
\* move event whose pointer id is that of the drag record, pins the recorded
\* node at the pointer's simulation-space coordinate with zero velocity and
\* publishes a snapshot of all nodes at once, whatever the tick throttle.
C5_DragStartMove ==
    /\ lastEvent.kind = "down" =>
           /\ dragState = [nodeId |-> lastEvent.nodeId, pointerId |-> lastEvent.pointerId]
           /\ FindIndex(nodesRef, lastEvent.nodeId) # 0
    /\ ( /\ lastEvent.kind \in {"down", "move"}
         /\ ActiveRecord # NoDrag
         /\ ActiveRecord.pointerId = lastEvent.pointerId
         /\ FindIndex(nodesRef, ActiveRecord.nodeId) # 0 ) =>
           LET k == FindIndex(nodesRef, ActiveRecord.nodeId)
           IN  /\ nodesRef[k].isFixed
               /\ nodesRef[k].x = lastEvent.x
               /\ nodesRef[k].y = lastEvent.y
               /\ nodesRef[k].vx = 0
               /\ nodesRef[k].vy = 0
               /\ positions = nodesRef
               /\ \A i \in 1..Len(nodesRef) : i # k => nodesRef[i] = before.nodes[i]

\* a move published at once although the last tick had been throttled and
\* the snapshot was stale
C5_Witness ==
    /\ lastEvent.kind = "move"
    /\ lastEvent.acted
    /\ lastTick # NoTick
    /\ ~lastTick.published
    /\ before.positions # before.nodes
    /\ positions = nodesRef
    /\ \E i \in 1..Len(nodesRef) : nodesRef[i].isFixed /\ nodesRef[i].x = lastEvent.x

\* the index-th of total nodes evenly spaced on the seed circle
OnSeedCircle(node, index, total) ==
    LET dx == Tenths(node.x - centerX)
        dy == Tenths(node.y - centerY)
        r == Tenths((Min(GRAPH_WIDTH, GRAPH_HEIGHT) * MILLI * 3) \div 10)
    IN  /\ Abs(dx * dx + dy * dy - r * r) <= (r * r) \div 1000
        /\ dx = Tenths((Cos((index * 360) \div total) * r * DECI) \div MILLI)
        /\ dy = Tenths((Sin((index * 360) \div total) * r * DECI) \div MILLI)

\* C6: a graph change or a teardown cancels the pending callback of the
\* running loop: after teardown no callback is pending, at any time the only
\* pending callback is the latest one of the live effect's loop, and every
\* executed tick belongs to the loop of the latest effect run and works on
\* the array seeded from the current graph with the current graph's links.
C6_Cancellation ==
    /\ ~mounted => rafQueue = {}
    /\ \A f \in rafQueue : f.loop = effect.loop /\ f.id = effect.frameId
    /\ effect # NoEffect => effect.loop = nextLoop - 1
    /\ Ticked =>
           /\ lastTick.loop = effect.loop
           /\ lastTick.links = BuildLinks(graph, nodesRef)
           /\ Len(nodesRef) = Len(graph.nodes)
           /\ \A i \in 1..Len(nodesRef) : nodesRef[i].id = graph.nodes[i].id

\* a tick of the fresh loop ran right after a graph change
C6_Witness ==
    /\ Ticked
    /\ prevEvent.kind = "graph"
    /\ lastTick.loop >= 2
    /\ Cardinality(rafQueue) = 1

\* the nodes a tick integrates are advanced from where they were
Advanced ==
    \A i \in 1..Len(nodesRef) :
        ~before.nodes[i].isFixed =>
            /\ nodesRef[i].vx = Decay(lastTick.phases[3].nodes[i].vx)
            /\ nodesRef[i].vy = Decay(lastTick.phases[3].nodes[i].vy)
            /\ nodesRef[i].x = Clamp(NODE_RADIUS * MILLI,
                                     (GRAPH_WIDTH - NODE_RADIUS) * MILLI,
                                     before.nodes[i].x + nodesRef[i].vx)
            /\ nodesRef[i].y = Clamp(NODE_RADIUS * MILLI,
                                     (GRAPH_HEIGHT - NODE_RADIUS) * MILLI,
                                     before.nodes[i].y + nodesRef[i].vy)

\* C7 as stated: a tick publishes only when its timestamp exceeds that of the
\* previous tick-driven publish by more than UPDATE_INTERVAL, and every tick
\* advances the authoritative state.
C7_ThrottleAnyTwoPublishes ==
    Ticked =>
        /\ (lastTick.published /\ lastTick.previousPublish # NoPublish) =>
               lastTick.timestamp - lastTick.previousPublish.timestamp > UPDATE_INTERVAL
        /\ Advanced

\* C7 amended: a tick publishes exactly when its timestamp exceeds by more
\* than UPDATE_INTERVAL the timestamp of the previous tick-driven publish of
\* its own loop (0 when its loop has not published yet), so two successive
\* tick-driven publishes of one loop are more than UPDATE_INTERVAL apart; a
\* tick that does not publish leaves the snapshot alone; every tick advances
\* the authoritative state.
C7_ThrottlePerLoop ==
    Ticked =>
        /\ lastTick.lastUpdate = IF lastTick.previousPublish.loop = lastTick.loop
                                 THEN lastTick.previousPublish.timestamp
                                 ELSE 0
        /\ lastTick.published <=>
               lastTick.timestamp - lastTick.lastUpdate > UPDATE_INTERVAL
        /\ (lastTick.published /\ lastTick.previousPublish.loop = lastTick.loop) =>
               lastTick.timestamp - lastTick.previousPublish.timestamp > UPDATE_INTERVAL
        /\ positions = IF lastTick.published THEN nodesRef ELSE before.positions
        /\ Advanced

\* a tick inside the interval after its loop's last publish moved the nodes
\* and published nothing
C7_Witness ==
    /\ Ticked
    /\ ~lastTick.published
    /\ lastTick.previousPublish.loop = lastTick.loop
    /\ nodesRef # before.nodes
    /\ positions = before.positions
    /\ positions # nodesRef

\* C8: a graph change replaces the authoritative array by the new graph's
\* nodes, same ids in the same order, each at its place on the seed circle
\* with zero velocity and not pinned, and publishes that array; nothing of
\* the previous array survives.
C8_Reseed ==
    lastEvent.kind = "graph" =>
        /\ Len(nodesRef) = Len(graph.nodes)
        /\ positions = nodesRef
        /\ \A i \in 1..Len(nodesRef) :
               /\ nodesRef[i].id = graph.nodes[i].id
               /\ nodesRef[i].vx = 0
               /\ nodesRef[i].vy = 0
               /\ ~nodesRef[i].isFixed
               /\ OnSeedCircle(nodesRef[i], i - 1, Len(nodesRef))

\* a graph change came after a tick and a drag and discarded a pinned,
\* displaced node of the same id
C8_Witness ==
    /\ lastEvent.kind = "graph"
    /\ lastTick # NoTick
    /\ \E i \in 1..Min(Len(nodesRef), Len(before.nodes)) :
           /\ before.nodes[i].id = nodesRef[i].id
           /\ before.nodes[i].isFixed
           /\ ~SamePlace(before.nodes[i], nodesRef[i])

\* C9: a tick runs repulsion, springs, centering, integration in that order
\* and the three force phases leave every node's x and y as they were when
\* the tick started; only integration moves nodes.
C9_PhaseOrder ==
    Ticked =>
        /\ [k \in 1..Len(lastTick.phases) |-> lastTick.phases[k].phase] =
               << "repulsion", "springs", "centering", "integration" >>
        /\ \A k \in 1..3 : \A i \in 1..Len(before.nodes) :
               /\ SamePlace(lastTick.phases[k].nodes[i], before.nodes[i])
               /\ lastTick.phases[k].nodes[i].isFixed = before.nodes[i].isFixed
        /\ lastTick.phases[4].nodes = nodesRef

\* a tick in which each force phase changed a node's velocity and the
\* integration then moved that node
C9_Witness ==
    /\ Ticked
    /\ \E i \in 1..Len(nodesRef) :
           /\ lastTick.phases[1].nodes[i].vx # before.nodes[i].vx
           /\ lastTick.phases[2].nodes[i].vx # lastTick.phases[1].nodes[i].vx
           /\ lastTick.phases[3].nodes[i].vx # lastTick.phases[2].nodes[i].vx
           /\ ~SamePlace(nodesRef[i], before.nodes[i])

----------------------------------------------------------------------------
(* Properties of the graph builder *)

Malformed(sc) ==
    /\ sc.present
    /\ \/ ~sc.characters.present
       \/ ~sc.actions.present
       \/ \E i \in 1..Len(sc.actions.items) :
              LET event == sc.actions.items[i].value
              IN  event.present /\ (~event.initiators.present \/ ~event.receivers.present)

\* the scene without the action keys whose event value is absent
WithoutAbsentEvents(sc) ==
    [sc EXCEPT !.actions.items =
        Filter(@, {e \in {sc.actions.items[i] : i \in 1..Len(sc.actions.items)} :
                      e.value.present})]

\* C10: the builder never throws; for an absent or malformed scene it
\* returns null; an actions key whose event value is absent contributes no
\* edges (the edges are those of the scene without that key).
C10_NullNeverThrows ==
    built # NotBuilt =>
        /\ built.kind # "throw"
        /\ (~scene.present \/ Malformed(scene)) => built.kind = "null"
        /\ built.kind = "graph" =>
               built.edges = buildGraphFromScene(WithoutAbsentEvents(scene)).edges

\* the roster has a character whose normalized key is that of token
Known(sc, token) ==
    \E i \in 1..Len(sc.characters.items) :
        normalizeId(sc.characters.items[i].rawId) = normalizeId(token)

\* the first raw spelling in the roster of the normalized key of token
FirstSpelling(sc, token) ==
    LET hits == {i \in 1..Len(sc.characters.items) :
                    normalizeId(sc.characters.items[i].rawId) = normalizeId(token)}
    IN  sc.characters.items[CHOOSE i \in hits : \A j \in hits : i <= j].rawId

\* the events of the scene that are present
PresentEvents(sc) ==
    {sc.actions.items[i].value : i \in 1..Len(sc.actions.items)} \ {AbsentEvent}

SourcesOf(edges, title) ==
    {edges[i].source : i \in {j \in 1..Len(edges) : edges[j].relationship = title}}

TargetsOf(edges, title) ==
    {edges[i].target : i \in {j \in 1..Len(edges) : edges[j].relationship = title}}

\* C13: a participant token whose normalized form is the key of a roster
\* character expands to exactly the first raw spelling of that key: where
\* such a token is the only initiator (receiver) of an event that emits
\* edges, that spelling is the one source (target) of the event's edges.
C13_CanonicalId ==
    built.kind = "graph" =>
        \A ev \in PresentEvents(scene) :
            /\ ( /\ Len(ev.initiators.items) = 1
                 /\ Known(scene, ev.initiators.items[1])
                 /\ SourcesOf(built.edges, ev.title) # {} )
               => SourcesOf(built.edges, ev.title) =
                      {FirstSpelling(scene, ev.initiators.items[1])}
            /\ ( /\ Len(ev.receivers.items) = 1
                 /\ Known(scene, ev.receivers.items[1])
                 /\ TargetsOf(built.edges, ev.title) # {} )
               => TargetsOf(built.edges, ev.title) =
                      {FirstSpelling(scene, ev.receivers.items[1])}

\* the participant tokens of the scene in the order the builder reads
\* them: event after event, the initiators of an event before its receivers
RECURSIVE TokensFrom(_, _, _)
TokensFrom(sc, keys, k) ==
    IF k > Len(keys) THEN << >>
    ELSE LET ev == EventOf(sc.actions.items, keys[k])
         IN  (IF ev.present THEN ev.initiators.items \o ev.receivers.items ELSE << >>)
             \o TokensFrom(sc, keys, k + 1)

TokensOf(sc) == TokensFrom(sc, sortEventKeys(ActionKeys(sc.actions.items)), 1)

\* a token that is neither the wildcard nor a known character
IsGroupToken(sc, token) == ~IsWildcard(token) /\ ~Known(sc, token)

\* the first group token of the scene whose normalized form is id
FirstGroupToken(sc, id) ==
    LET tokens == TokensOf(sc)
        hits == {i \in 1..Len(tokens) :
                    IsGroupToken(sc, tokens[i]) /\ normalizeId(tokens[i]) = id}
    IN  tokens[CHOOSE i \in hits : \A j \in hits : i <= j]

GroupIndices(nodes) == {i \in 1..Len(nodes) : nodes[i].group = "group"}

\* C14: a group is registered once: the output holds one group node per
\* normalized id, and its label is the display label of the first group
\* token of the scene with that normalized form.
C14_GroupFirstLabel ==
    built.kind = "graph" =>
        \A i \in GroupIndices(built.nodes) :
            /\ \A j \in GroupIndices(built.nodes) :
                   built.nodes[j].id = built.nodes[i].id => j = i
            /\ built.nodes[i].label =
                   formatDisplayName(FirstGroupToken(scene, built.nodes[i].id))

\* the ids of the roster characters: one per normalized key, its first
\* raw spelling
RosterIds(sc) ==
    {FirstSpelling(sc, sc.characters.items[i].rawId) : i \in 1..Len(sc.characters.items)}

\* C15 as claimed: the edges of an event whose initiators list is ["ALL"]
\* have every roster character id, and nothing else, as their sources.
C15_WildcardSources ==
    built.kind = "graph" =>
        \A ev \in PresentEvents(scene) :
            ev.initiators.items = << TokenALL >>
                => SourcesOf(built.edges, ev.title) = RosterIds(scene)

\* C15 amended: the edges of an event whose initiators list is ["ALL"] and
\* whose receivers list is not empty have every roster character id, and
\* nothing else, as their sources.
C15_WildcardSourcesWithReceivers ==
    built.kind = "graph" =>
        \A ev \in PresentEvents(scene) :
            (ev.initiators.items = << TokenALL >> /\ Len(ev.receivers.items) >= 1)
                => SourcesOf(built.edges, ev.title) = RosterIds(scene)

C15_Witness ==
    /\ built.kind = "graph"
    /\ Cardinality(RosterIds(scene)) >= 2
    /\ \E ev \in PresentEvents(scene) :
           /\ ev.initiators.items = << TokenALL >>
           /\ Len(ev.receivers.items) >= 1
           /\ SourcesOf(built.edges, ev.title) = RosterIds(scene)

\* the ids the builder registers: the roster ids and the normalized forms
\* of the group tokens
RegisteredIds(sc) ==
    LET tokens == TokensOf(sc)
    IN  RosterIds(sc) \cup
        {normalizeId(tokens[i]) : i \in {j \in 1..Len(tokens) : IsGroupToken(sc, tokens[j])}}

NodeIdsOf(nodes) == {nodes[i].id : i \in 1..Len(nodes)}

\* C16: the output nodes are exactly the registered character and group
\* nodes that are the source or the target of an emitted edge.
C16_Pruning ==
    built.kind = "graph" =>
        NodeIdsOf(built.nodes) = RegisteredIds(scene) \cap UsedNodeIds(built.edges)

\* the edges that carry title, in output order
EdgesOf(edges, title) ==
    Filter(edges, {e \in {edges[i] : i \in 1..Len(edges)} : e.relationship = title})

\* the action keys whose event is ev
Occurrences(sc, ev) ==
    Cardinality({i \in 1..Len(sc.actions.items) : sc.actions.items[i].value = ev})

\* what a participant list expands to
Expanded(sc, participants) ==
    expandParticipants(CharacterMap(sc.characters.items), participants, << >>).expanded

\* the n-th (source, target) pair of the cross product, initiators outside
PairAt(initiators, receivers, n) ==
    << initiators[((n - 1) \div Len(receivers)) + 1],
       receivers[((n - 1) % Len(receivers)) + 1] >>

\* C17: an event emits one edge per (initiator, receiver) pair of its
\* expanded lists, titled with the event's title, repeated pairs included:
\* each time the event occurs its edges number the product of the two
\* list lengths and are those pairs.
C17_EdgePerPair ==
    built.kind = "graph" =>
        \A ev \in PresentEvents(scene) :
            LET ini == Expanded(scene, ev.initiators)
                rec == Expanded(scene, ev.receivers)
                product == Len(ini) * Len(rec)
                emitted == EdgesOf(built.edges, ev.title)
            IN  /\ Len(emitted) = Occurrences(scene, ev) * product
                /\ \A n \in 1..Len(emitted) :
                       << emitted[n].source, emitted[n].target >> =
                           PairAt(ini, rec, ((n - 1) % product) + 1)

\* an event with a repeated initiator has emitted its edge twice
C17_Witness ==
    /\ built.kind = "graph"
    /\ \E ev \in PresentEvents(scene) :
           /\ Len(Expanded(scene, ev.initiators)) * Len(Expanded(scene, ev.receivers)) >= 2
           /\ \E n, m \in 1..Len(built.edges) :
                  n # m /\ built.edges[n] = built.edges[m]
                        /\ built.edges[n].relationship = ev.title
           /\ Occurrences(scene, ev) = 1

\* every present event of the scene has its own title
DistinctTitles(sc) ==
    \A i, j \in 1..Len(sc.actions.items) :
        (/\ sc.actions.items[i].value.present
         /\ sc.actions.items[j].value.present
         /\ sc.actions.items[i].value.title = sc.actions.items[j].value.title) => i = j

\* the number read from the digits of the key of the event titled title
KeyNumberOf(sc, title) ==
    LET i == CHOOSE j \in 1..Len(sc.actions.items) :
                 sc.actions.items[j].value.present
                     /\ sc.actions.items[j].value.title = title
    IN  numberFromKey(sc.actions.items[i].key)

\* C18: the edges come event by event in ascending order of the number
\* formed by the digits of the event key (e2 before e10), whatever the
\* order of the keys in the actions map.
C18_NumericEventOrder ==
    (built.kind = "graph" /\ DistinctTitles(scene)) =>
        \A p, q \in 1..Len(built.edges) :
            p < q => KeyNumberOf(scene, built.edges[p].relationship)
                         <= KeyNumberOf(scene, built.edges[q].relationship)

\* the map lists e10 before e2 and the edges of e2 come first
C18_Witness ==
    /\ built.kind = "graph"
    /\ DistinctTitles(scene)
    /\ Len(scene.actions.items) >= 2
    /\ scene.actions.items[1].key = << "e", "1", "0" >>
    /\ scene.actions.items[2].key = << "e", "2" >>
    /\ \E p, q \in 1..Len(built.edges) :
           /\ p < q
           /\ built.edges[p].relationship = scene.actions.items[2].value.title
           /\ built.edges[q].relationship = scene.actions.items[1].value.title

\* the place of the roster entry whose raw id is id
RosterIndex(sc, id) ==
    CHOOSE i \in 1..Len(sc.characters.items) : sc.characters.items[i].rawId = id

\* the place in the token stream of the first group token normalizing to id
FirstSeen(sc, id) ==
    LET tokens == TokensOf(sc)
        hits == {i \in 1..Len(tokens) :
                    IsGroupToken(sc, tokens[i]) /\ normalizeId(tokens[i]) = id}
    IN  CHOOSE i \in hits : \A j \in hits : i <= j

\* the place of action key i in ascending order of key number, keys of
\* equal number in map order
Rank(sc, i) ==
    LET items == sc.actions.items
    IN  1 + Cardinality({j \in 1..Len(items) :
                \/ numberFromKey(items[j].key) < numberFromKey(items[i].key)
                \/ (numberFromKey(items[j].key) = numberFromKey(items[i].key) /\ j < i)})

\* the edges of the events ranked r and later: per event the initiators in
\* order and, for each, the receivers in order
RECURSIVE ExpectedFrom(_, _)
ExpectedFrom(sc, r) ==
    IF r > Len(sc.actions.items) THEN << >>
    ELSE LET i == CHOOSE j \in 1..Len(sc.actions.items) : Rank(sc, j) = r
             ev == sc.actions.items[i].value
             ini == Expanded(sc, ev.initiators)
             rec == Expanded(sc, ev.receivers)
             links == [n \in 1..(Len(ini) * Len(rec)) |->
                          [source |-> PairAt(ini, rec, n)[1],
                           target |-> PairAt(ini, rec, n)[2],
                           relationship |-> ev.title]]
         IN  (IF ev.present THEN links ELSE << >>) \o ExpectedFrom(sc, r + 1)

ExpectedEdges(sc) == ExpectedFrom(sc, 1)

\* C19: the builder's output for a scene is one fixed pair of lists:
\* character nodes in roster order, then group nodes in first-seen order;
\* edges event by event, initiator by initiator, receiver by receiver.
C19_OutputOrder ==
    built.kind = "graph" =>
        /\ built.edges = ExpectedEdges(scene)
        /\ \A i, j \in 1..Len(built.nodes) :
               i < j =>
                   LET a == built.nodes[i]
                       b == built.nodes[j]
                   IN  /\ ~(a.group = "group" /\ b.group = "none")
                       /\ (a.group = "none" /\ b.group = "none")
                              => RosterIndex(scene, a.id) < RosterIndex(scene, b.id)
                       /\ (a.group = "group" /\ b.group = "group")
                              => FirstSeen(scene, a.id) < FirstSeen(scene, b.id)

\* an output with two character nodes, two group nodes and edges of two events
C19_Witness ==
    /\ built.kind = "graph"
    /\ Cardinality({i \in 1..Len(built.nodes) : built.nodes[i].group = "none"}) >= 2
    /\ Cardinality(GroupIndices(built.nodes)) >= 2
    /\ \E p, q \in 1..Len(built.edges) :
           built.edges[p].relationship # built.edges[q].relationship

\* an event with one or more initiators and zero receivers
EmptyReceivers(ev) ==
    /\ ev.present
    /\ ev.initiators.present
    /\ ev.receivers.present
    /\ Len(ev.initiators.items) >= 1
    /\ Len(ev.receivers.items) = 0

\* the ids an event refers to
ReferredTo(sc, ev) ==
    LET ini == Expanded(sc, ev.initiators)
        rec == Expanded(sc, ev.receivers)
    IN  {ini[k] : k \in 1..Len(ini)} \cup {rec[k] : k \in 1..Len(rec)}

\* the keys of the Map groupNodes when the builder is through
GroupKeys(sc) ==
    LET groupNodes == FlatMapped(sc).groupNodes
    IN  {groupNodes[k].key : k \in 1..Len(groupNodes)}

\* C26: an event with one or more initiators and zero receivers emits no
\* edge at all (no self-loop), and a node referenced only by such events is
\* pruned from the output, although a group token among those initiators
\* is still registered internally (in the Map groupNodes).
C26_EmptyReceiverPolicy ==
    built.kind = "graph" =>
        \A ev \in PresentEvents(scene) :
            EmptyReceivers(ev) =>
                /\ EdgesOf(built.edges, ev.title) = << >>
                /\ \A id \in ReferredTo(scene, ev) :
                       (\A other \in PresentEvents(scene) :
                            id \in ReferredTo(scene, other) => EmptyReceivers(other))
                           => id \notin NodeIdsOf(built.nodes)
                /\ \A k \in 1..Len(ev.initiators.items) :
                       IsGroupToken(scene, ev.initiators.items[k])
                           => normalizeId(ev.initiators.items[k]) \in GroupKeys(scene)

\* a group named only by an event without receivers is registered and
\* pruned, next to an event that emits edges
C26_Witness ==
    /\ built.kind = "graph"
    /\ Len(built.edges) >= 1
    /\ \E ev \in PresentEvents(scene) :
           /\ EmptyReceivers(ev)
           /\ \E k \in 1..Len(ev.initiators.items) :
                  /\ IsGroupToken(scene, ev.initiators.items[k])
                  /\ normalizeId(ev.initiators.items[k]) \in GroupKeys(scene)
                  /\ normalizeId(ev.initiators.items[k]) \notin NodeIdsOf(built.nodes)

\* the links that carry the action name of an event, in the order built
LinksOf(links, event) ==
    LET Named(link) == link.label[4] = event.operation_action_name
    IN  SelectSeq(links, Named)

\* how many times an event stands in the data
TimesIn(data, event) == Cardinality({i \in 1..Len(data) : data[i] = event})

\* C27: in the SceneGraph variant, for an event with initiators and no
\* receivers, the links produced are exactly one self-loop per initiator
\* (source = target = that initiator) and no link between two different
\* initiators.
C27_SelfLoopPolicy ==
    sceneGraph.done =>
        \A i \in 1..Len(sceneData) :
            LET event == sceneData[i]
                initiators == OrEmpty(event.initiators)
                produced == LinksOf(sceneGraph.links, event)
            IN  (Len(initiators) >= 1 /\ Len(OrEmpty(event.receivers)) = 0) =>
                    /\ Len(produced) = TimesIn(sceneData, event) * Len(initiators)
                    /\ \A n \in 1..Len(produced) :
                           /\ produced[n].source = produced[n].target
                           /\ produced[n].source =
                                  initiators[((n - 1) % Len(initiators)) + 1]

\* C29: node ids are unique: for every scene, no two nodes of the output
\* (character nodes and group nodes together) have the same id.
C29_UniqueNodeIds ==
    built.kind = "graph" =>
        \A i, j \in 1..Len(built.nodes) :
            built.nodes[i].id = built.nodes[j].id => i = j

\* C30: endpoint closure: for every scene for which the builder returns a
\* graph, the source and the target of every output edge is the id of a
\* node of the output node list.
C30_EndpointClosure ==
    built.kind = "graph" =>
        \A k \in 1..Len(built.edges) :
            /\ built.edges[k].source \in NodeIdsOf(built.nodes)
            /\ built.edges[k].target \in NodeIdsOf(built.nodes)

----------------------------------------------------------------------------
(* Properties of the simulation left to itself and of the hover handlers *)

\* C28: no orphan pins: in every state reachable by pointer-down, -move,
\* -up / cancel / leave events of any pointers on any nodes and by ticks, a
\* node has isFixed = true only if the active drag record names that node;
\* once no drag record is active no node is pinned.
C28_NoOrphanPins ==
    \A i \in 1..Len(nodesRef) :
        nodesRef[i].isFixed =>
            (dragState # NoDrag /\ dragState.nodeId = nodesRef[i].id)

\* C25: the tick loop is self-rescheduling: while the component is mounted
\* with a graph (one that has nodes), every executed tick schedules exactly
\* one next tick, at every moment at most one frame callback is pending
\* for the component, and the loop never stops by itself: a frame of the
\* live effect is always pending.
C25_SelfRescheduling ==
    /\ Cardinality(rafQueue) <= 1
    /\ (mounted /\ Len(graph.nodes) > 0) =>
           /\ Cardinality(rafQueue) = 1
           /\ \A f \in rafQueue : f.loop = effect.loop /\ f.id = effect.frameId
    /\ Ticked =>
           \E f \in rafQueue : f.id = nextFrameId - 1 /\ f.loop = lastTick.loop

\* two ticks in a row of the loop started by a graph change
C25_Witness ==
    /\ Ticked
    /\ prevEvent.kind = "tick"
    /\ mounted
    /\ lastTick.loop = 2
    /\ \E f \in rafQueue : f.loop = 2 /\ f.id = 4

\* the distance between the first two nodes, in tenths of a unit
Separation(nodes) ==
    Sqrt(Tenths(nodes[2].x - nodes[1].x) * Tenths(nodes[2].x - nodes[1].x) +
         Tenths(nodes[2].y - nodes[1].y) * Tenths(nodes[2].y - nodes[1].y))

\* the tolerance on the distance: 4 units, in tenths
SettleTolerance == 4 * (MILLI \div DECI)

\* the speed that counts as rest: a tenth of a unit per tick
RestSpeed == MILLI \div 10

\* the ticks given to the simulation to settle
SettleTicks == MaxTicks - 40

\* C24: for a graph of 2 nodes joined by 1 edge, seeded by the engine and
\* ticked with no dragging, the distance between the two nodes converges to
\* within a small tolerance (4 units) of SPRING_DISTANCE and both velocities
\* decay toward zero: from SettleTicks ticks on the distance stays within
\* the tolerance and no velocity component exceeds RestSpeed.
C24_Settles ==
    steps >= SettleTicks =>
        /\ Abs(Separation(nodesRef) - SPRING_DISTANCE * (MILLI \div DECI))
               <= SettleTolerance
        /\ \A i \in 1..Len(nodesRef) :
               Abs(nodesRef[i].vx) <= RestSpeed /\ Abs(nodesRef[i].vy) <= RestSpeed

\* the simulation has run its ticks: it started at twice the rest distance
\* and at rest, and has come to the rest distance
C24_Witness ==
    /\ steps = MaxTicks
    /\ Ticked
    /\ Separation(createInitialNodes(graph)) > 2 * SPRING_DISTANCE * (MILLI \div DECI)
    /\ Separation(nodesRef) < Separation(createInitialNodes(graph)) \div 2
    /\ Abs(Separation(nodesRef) - SPRING_DISTANCE * (MILLI \div DECI))
           <= SettleTolerance

HoverKinds == {"node-enter", "node-out", "edge-enter", "edge-move", "edge-leave"}

\* a step of a hover handler for a pointer that holds no drag
HoverStep ==
    /\ steps' = steps + 1
    /\ lastEvent'.kind \in HoverKinds
    /\ dragState = NoDrag \/ dragState.pointerId # lastEvent'.pointerId

\* C23: hover events (pointer enter / out on a node, pointer enter / move /
\* leave on an edge) change only the hovered-node id, the hovered-edge key
\* and the edge tooltip: every node's x, y, vx, vy and isFixed and the drag
\* record stay as they were, as long as no drag is active for that pointer.
C23_HoverFrame ==
    [][HoverStep =>
          UNCHANGED << nodesRef, positions, dragState, capture, mounted, graph,
                       effect, rafQueue, nextFrameId, nextLoop, now >>]_vars

\* a node was left by the hovering pointer, which cleared the hovered id,
\* while the other pointer holds a node
C23_Witness ==
    /\ lastEvent.kind = "node-out"
    /\ lastEvent.acted
    /\ hoveredNodeId = NoNode
    /\ before.drag # NoDrag
    /\ before.drag.pointerId # lastEvent.pointerId
    /\ \E i \in 1..Len(nodesRef) : nodesRef[i].isFixed /\ nodesRef[i].id = lastEvent.nodeId

----------------------------------------------------------------------------
(* Properties of the renderer *)

\* an edge one of whose endpoints is the id of no node of g
Dangling(g, edge) ==
    \/ \A i \in 1..Len(g.nodes) : g.nodes[i].id # edge.source
    \/ \A i \in 1..Len(g.nodes) : g.nodes[i].id # edge.target

\* g with its dangling edges removed
WithoutDangling(g) ==
    [g EXCEPT !.edges =
        Filter(@, {e \in {g.edges[i] : i \in 1..Len(g.edges)} : ~Dangling(g, e)})]

\* what is on screen for one path: the edge and the curve
Shape(path) ==
    [source |-> path.edge.source, target |-> path.edge.target,
     relationship |-> path.edge.relationship,
     sx |-> path.sx, sy |-> path.sy, cx |-> path.cx, cy |-> path.cy,
     tx |-> path.tx, ty |-> path.ty]

\* the paths on screen, in document order
RECURSIVE ShapesFrom(_, _)
ShapesFrom(paths, k) ==
    IF k > Len(paths) THEN << >>
    ELSE IF paths[k].drawn THEN << Shape(paths[k]) >> \o ShapesFrom(paths, k + 1)
    ELSE ShapesFrom(paths, k + 1)

Shapes(v) == ShapesFrom(v.paths, 1)

\* C11: an edge with an endpoint that is the id of no node is skipped: it
\* gets no path, it yields no spring link (so no tick applies a spring
\* force for it), and the links, the spring phase and the paths on screen
\* are those of the graph without that edge.
C11_DanglingEdgeSkipped ==
    view.drawn =>
        LET clean == WithoutDangling(graph)
            links == BuildLinks(graph, nodesRef)
        IN  /\ \A k \in 1..Len(view.paths) :
                   Dangling(graph, view.paths[k].edge) => ~view.paths[k].drawn
            /\ links = BuildLinks(clean, nodesRef)
            /\ Springs(nodesRef, links) = Springs(nodesRef, BuildLinks(clean, nodesRef))
            /\ Shapes(view) = Shapes(Render(clean, positions))

\* two paths of one bundle group, both on screen, between endpoints at
\* distinct positions
Bundled(v, k, l) ==
    /\ k # l
    /\ v.paths[k].drawn
    /\ v.paths[l].drawn
    /\ GroupKey(v.paths[k].edge) = GroupKey(v.paths[l].edge)
    /\ << v.paths[k].sx, v.paths[k].sy >> # << v.paths[k].tx, v.paths[k].ty >>

\* C20: two distinct edges of one bundle group, their endpoint nodes at
\* distinct positions, are drawn with different control points, also when
\* the group mixes the two directions.
C20_CurvesSeparable ==
    view.drawn =>
        \A k, l \in 1..Len(view.paths) :
            Bundled(view, k, l) =>
                << view.paths[k].cx, view.paths[k].cy >> #
                    << view.paths[l].cx, view.paths[l].cy >>

\* the edges of the list with the unordered endpoint pair of a key, in
\* edge-list order
GroupMembers(edges, key) ==
    Filter(edges, {e \in {edges[i] : i \in 1..Len(edges)} : GroupKey(e) = key})

\* the decorated edges of a key, in the order of the decorated list
DecoratedOf(v, key) ==
    LET OfKey(path) == GroupKey(path.edge) = key
    IN  SelectSeq(v.paths, OfKey)

RECURSIVE OffsetSum(_, _)
OffsetSum(paths, k) ==
    IF k > Len(paths) THEN 0 ELSE paths[k].edge.curveIndex + OffsetSum(paths, k + 1)

\* where the first edge of a key stands in the edge list
FirstOfKey(edges, key) ==
    CHOOSE k \in 1..Len(edges) :
        /\ GroupKey(edges[k]) = key
        /\ \A j \in 1..(k - 1) : GroupKey(edges[j]) # key

\* C21: in a bundle group of n edges the edge at position i (0-based, in
\* edge-list order) gets curveIndex i - (n - 1) / 2, here 2 * i - (n - 1)
\* halves, and groupSize n; the offsets of every group sum to zero and are
\* symmetric around zero, and a single edge gets 0.  The decorated list is
\* fixed by the edge list: the groups stand in the order of their first
\* edge, the edges of a group in edge-list order.
C21_CurveOffsets ==
    view.drawn =>
        /\ Len(view.paths) = Len(graph.edges)
        /\ \A p, q \in 1..Len(view.paths) :
               p < q => FirstOfKey(graph.edges, GroupKey(view.paths[p].edge)) <=
                            FirstOfKey(graph.edges, GroupKey(view.paths[q].edge))
        /\ \A k \in 1..Len(graph.edges) :
               LET key == GroupKey(graph.edges[k])
                   members == GroupMembers(graph.edges, key)
                   decorated == DecoratedOf(view, key)
                   n == Len(members)
               IN  /\ Len(decorated) = n
                   /\ \A i \in 1..n :
                          /\ decorated[i].edge.source = members[i].source
                          /\ decorated[i].edge.target = members[i].target
                          /\ decorated[i].edge.relationship = members[i].relationship
                          /\ decorated[i].edge.curveIndex = 2 * (i - 1) - (n - 1)
                          /\ decorated[i].edge.groupSize = n
                          /\ decorated[i].edge.curveIndex =
                                 0 - decorated[n + 1 - i].edge.curveIndex
                   /\ OffsetSum(decorated, 1) = 0
                   /\ n = 1 => decorated[1].edge.curveIndex = 0

\* a group of two edges that are not neighbours in the edge list has been
\* decorated
C21_Witness ==
    /\ view.drawn
    /\ Len(graph.edges) = 3
    /\ GroupKey(graph.edges[1]) = GroupKey(graph.edges[3])
    /\ GroupKey(graph.edges[1]) # GroupKey(graph.edges[2])
    /\ graph.edges[1] # graph.edges[3]
    /\ view.paths[2].edge.curveIndex = 1
    /\ view.paths[3].edge.groupSize = 1

\* the unordered pair of endpoint ids of an edge
EndpointPair(edge) == {edge.source, edge.target}

\* C22: two edges are placed in the same bundle group if and only if they
\* have the same unordered pair of endpoint ids, for all id strings: the
\* group of every edge holds exactly the edges of the list with its pair.
C22_BundleGrouping ==
    view.drawn =>
        \A k \in 1..Len(view.paths) :
            /\ view.paths[k].edge.groupSize =
                   Cardinality({j \in 1..Len(graph.edges) :
                       EndpointPair(graph.edges[j]) = EndpointPair(view.paths[k].edge)})
            /\ \A l \in 1..Len(view.paths) :
                   GroupKey(view.paths[k].edge) = GroupKey(view.paths[l].edge) <=>
                       EndpointPair(view.paths[k].edge) = EndpointPair(view.paths[l].edge)

----------------------------------------------------------------------------
(* Properties of normalizeName *)

\* C12: normalization is idempotent: normalizing the result of
\* normalizeName(x) gives that result again, for every identifier x.
C12_Idempotent == Len(normal) = 2 => normal[2] = normal[1]

====
